---- MODULE Spec2Model ----
(***************************************************************************)
(* Geometry synthesis and spatial indexing of the 2Dto3D repository.       *)
(*                                                                         *)
(* Lengths are integers in units of 25 mm (40 units per metre), so that    *)
(* every default dimension of the scripts and its half is an integer.      *)
(* A Python float (a double) is modelled by such an integer; a 32-bit      *)
(* float, as written by struct.pack('<f'), is a multiple of F32Step, so    *)
(* packing is a rounding and not the identity.  A blob is the sequence of  *)
(* its 32-bit words (every blob the scripts write is a whole number of     *)
(* 4-byte words).                                                          *)
(***************************************************************************)
EXTENDS Integers, Sequences, FiniteSets, TLC

VARIABLES
    elements_meta,       \* table elements_meta: sequence of rows, ids 1..n
    element_transforms,  \* table element_transforms: sequence of rows
    base_geometries,     \* table base_geometries: sequence of rows
    element_instances,   \* table element_instances: sequence of rows
    elements_rtree,      \* virtual table elements_rtree: sequence of rows
    template_hashes,     \* generate_arc_str_database: template_key -> hash
    stats,               \* counters reported by the last pass
    call,                \* pure-function check: the call and its arguments
    ret                  \* pure-function check: the value returned

vars == <<elements_meta, element_transforms, base_geometries,
          element_instances, elements_rtree, template_hashes, stats,
          call, ret>>

dbvars == <<elements_meta, element_transforms, base_geometries,
            element_instances, elements_rtree, template_hashes, stats>>

(***************************************************************************)
(* Bounds of the model.                                                    *)
(***************************************************************************)
MaxVerts == 2      \* longest vertex list handed to the packers
MaxFaces == 2      \* longest face list handed to the packers
MaxCoord == 2      \* largest |coordinate| of a packed sample vertex

NoValue == [fn |-> "none"]

NoStats == [pass |-> "none"]

(***************************************************************************)
(* Sequence helpers.                                                       *)
(***************************************************************************)
Range(s) == {s[i] : i \in DOMAIN s}

SeqsUpTo(S, n) == UNION {[1..k -> S] : k \in 0..n}

Min(S) == CHOOSE x \in S : \A y \in S : x <= y

Max(S) == CHOOSE x \in S : \A y \in S : x >= y

(***************************************************************************)
(* 32-bit floats.  struct.pack('<f', x) rounds the double x to the nearest *)
(* 32-bit float, ties to the even mantissa; the R*Tree module of SQLite    *)
(* stores its coordinates as 32-bit floats too, rounding a lower bound     *)
(* down and an upper bound up.                                             *)
(***************************************************************************)
F32Step == 2

FloorF32(x) == (x \div F32Step) * F32Step

CeilF32(x) == 0 - FloorF32(0 - x)

Round32(x) ==
    LET q == x \div F32Step
        r == x % F32Step
    IN  IF 2 * r < F32Step THEN q * F32Step
        ELSE IF 2 * r > F32Step THEN (q + 1) * F32Step
        ELSE IF q % 2 = 0 THEN q * F32Step ELSE (q + 1) * F32Step

\* Bit pattern of a 32-bit float: sign bit, then a biased magnitude that
\* grows with the value; 0.0 is the all-zero word.
SignBit == 2 ^ 30

ExpBase == 2 ^ 20

FloatBits(f) ==
    LET k == f \div F32Step
    IN  IF k = 0 THEN 0
        ELSE IF k > 0 THEN ExpBase + k
        ELSE SignBit + ExpBase + (0 - k)

\* The float a word is read back as (words below ExpBase are denormals,
\* which are zero at the resolution of the model).
BitsFloat(w) ==
    IF w >= SignBit + ExpBase THEN (0 - (w - SignBit - ExpBase)) * F32Step
    ELSE IF w >= SignBit THEN 0
    ELSE IF w >= ExpBase THEN (w - ExpBase) * F32Step
    ELSE 0

(***************************************************************************)
(* Binary packer (generate_3d_geometry.py, generate_arc_str_database.py).  *)
(***************************************************************************)
Flatten(triples) ==
    [i \in 1..(3 * Len(triples)) |->
        triples[((i - 1) \div 3) + 1][((i - 1) % 3) + 1]]

PackFloatsSwapped(vertices) ==
    [i \in 1..(3 * Len(vertices)) |->
        FloatBits(Round32(vertices[((i - 1) \div 3) + 1][3 - ((i - 1) % 3)]))]

pack_vertices(vertices) ==
    [i \in 1..(3 * Len(vertices)) |-> FloatBits(Round32(Flatten(vertices)[i]))]

pack_faces(faces) == Flatten(faces)

pack_normals(normals) ==
    [i \in 1..(3 * Len(normals)) |-> FloatBits(Round32(Flatten(normals)[i]))]

BlobBytes(blob) == 4 * Len(blob)

\* hashlib.sha256 over vertices_blob followed by faces_blob.  SHA-256 is
\* taken to be injective: the digest is represented by the bytes hashed.
compute_hash(vertices_blob, faces_blob) ==
    [sha256 |-> vertices_blob \o faces_blob]

(***************************************************************************)
(* Unpacker and bounding box (fix_rtree_bboxes.py).                        *)
(***************************************************************************)
\* struct.unpack('<fff', blob[offset:offset+12]) raises on the last slice
\* when the number of whole words is not a multiple of 3.
\* The result is [raised, value]: raised is TRUE when struct.error is raised.
unpack_vertices(blob) ==
    IF Len(blob) = 0 THEN [raised |-> FALSE, value |-> <<>>]
    ELSE IF Len(blob) % 3 # 0 THEN [raised |-> TRUE, value |-> <<>>]
    ELSE [raised |-> FALSE,
          value |-> [j \in 1..(Len(blob) \div 3) |->
                       <<BitsFloat(blob[3 * j - 2]), BitsFloat(blob[3 * j - 1]),
                         BitsFloat(blob[3 * j])>>]]

PlaceholderBBox == [minX |-> -20, maxX |-> 20, minY |-> -20, maxY |-> 20,
                    minZ |-> -20, maxZ |-> 20]

Axis(vertices, a) == {vertices[i][a] : i \in DOMAIN vertices}

BBoxYFromXs(vertices) ==
    IF Len(vertices) = 0 THEN PlaceholderBBox
    ELSE [minX |-> Min(Axis(vertices, 1)), maxX |-> Max(Axis(vertices, 1)),
          minY |-> Min(Axis(vertices, 1)), maxY |-> Max(Axis(vertices, 1)),
          minZ |-> Min(Axis(vertices, 3)), maxZ |-> Max(Axis(vertices, 3))]

calculate_bbox(vertices) ==
    IF Len(vertices) = 0 THEN PlaceholderBBox
    ELSE [minX |-> Min(Axis(vertices, 1)), maxX |-> Max(Axis(vertices, 1)),
          minY |-> Min(Axis(vertices, 2)), maxY |-> Max(Axis(vertices, 2)),
          minZ |-> Min(Axis(vertices, 3)), maxZ |-> Max(Axis(vertices, 3))]

(***************************************************************************)
(* Pure-function checks of the packer and the hash.                        *)
(***************************************************************************)
Coords == (0 - MaxCoord)..MaxCoord

SampleVertices == {<<x, y, x + y>> : x \in Coords, y \in {-1, 0, 2}}

\* Vertices and faces handed to compute_hash: 32-bit-exact coordinates.
HashVertices == {<<0, 0, 0>>, <<F32Step, 0, 0>>}

HashFaces == {<<0, 0, 0>>, <<0, 1, 0>>}

HashMeshes == [v : SeqsUpTo(HashVertices, MaxVerts),
               f : SeqsUpTo(HashFaces, MaxFaces)]

PackCalls ==
    [fn : {"roundtrip"}, v : SeqsUpTo(SampleVertices, MaxVerts)]
    \cup [fn : {"hash"}, m1 : HashMeshes, m2 : HashMeshes]

InitPack ==
    /\ call \in PackCalls
    /\ ret = NoValue
    /\ elements_meta = <<>>
    /\ element_transforms = <<>>
    /\ base_geometries = <<>>
    /\ element_instances = <<>>
    /\ elements_rtree = <<>>
    /\ template_hashes = <<>>
    /\ stats = NoStats

\* unpack_vertices(pack_vertices(v))
RoundTrip ==
    /\ call.fn = "roundtrip"
    /\ ret = NoValue
    /\ ret' = [fn |-> "roundtrip", blob |-> pack_vertices(call.v),
               unpacked |-> unpack_vertices(pack_vertices(call.v))]
    /\ UNCHANGED <<call, dbvars>>

MeshHash(m) == compute_hash(pack_vertices(m.v), pack_faces(m.f))

\* compute_hash(pack_vertices(v), pack_faces(f)) of two meshes
HashTwo ==
    /\ call.fn = "hash"
    /\ ret = NoValue
    /\ ret' = [fn |-> "hash", h1 |-> MeshHash(call.m1), h2 |-> MeshHash(call.m2)]
    /\ UNCHANGED <<call, dbvars>>

NextPack == RoundTrip \/ HashTwo

SpecPack == InitPack /\ [][NextPack]_vars

(***************************************************************************)
(* C10: unpack_vertices(pack_vertices(v)) has the length of v and its i-th *)
(* triple carries the 32-bit values of the i-th triple packed, in order;   *)
(* the blob is exactly 12 * len(v) bytes.                                  *)
(***************************************************************************)
C10_RoundTrip ==
    (ret.fn = "roundtrip") =>
        /\ BlobBytes(ret.blob) = 12 * Len(call.v)
        /\ ~ret.unpacked.raised
        /\ Len(ret.unpacked.value) = Len(call.v)
        /\ \A i \in 1..Len(call.v) : \A a \in 1..3 :
              ret.unpacked.value[i][a] = Round32(call.v[i][a])

\* a two-vertex list with distinct components, one of them not 32-bit exact
C10_Witness ==
    /\ ret.fn = "roundtrip"
    /\ Len(call.v) = 2
    /\ call.v[1] # call.v[2]
    /\ call.v[1][1] # call.v[1][2]
    /\ \E a \in 1..3 : ret.unpacked.value[2][a] # call.v[2][a]
    /\ \E a \in 1..3 : ret.unpacked.value[2][a] < 0

\* the empty list packs to the empty blob and unpacks to the empty list
C10_WitnessEmpty ==
    ret.fn = "roundtrip" /\ call.v = <<>>

(***************************************************************************)
(* C9: compute_hash gives two meshes the same digest exactly when their    *)
(* vertex lists and their face lists are equal.                            *)
(***************************************************************************)
C9_HashInjective ==
    (ret.fn = "hash") =>
        ((ret.h1 = ret.h2) <=> (call.m1.v = call.m2.v /\ call.m1.f = call.m2.f))


(***************************************************************************)
(* Parametric generators and transforms (generate_3d_geometry.py).         *)
(***************************************************************************)
Metre == 40

DEFAULT_WALL_THICKNESS == 8

DEFAULT_WALL_HEIGHT == 120

DEFAULT_DOOR_WIDTH == 36

DEFAULT_DOOR_HEIGHT == 84

DEFAULT_WINDOW_WIDTH == 48

DEFAULT_WINDOW_HEIGHT == 60

DEFAULT_COLUMN_DIAMETER == 16

DEFAULT_COLUMN_HEIGHT == 140

DEFAULT_EQUIPMENT_SIZE == 40

COLUMN_SEGMENTS == 12

Half(x) == x \div 2

Abs(x) == IF x < 0 THEN 0 - x ELSE x

Sign(x) == IF x < 0 THEN -1 ELSE IF x > 0 THEN 1 ELSE 0

Clamp(lo, x, hi) ==
    LET m == IF x < hi THEN x ELSE hi
    IN  IF lo > m THEN lo ELSE m

ISqrt(n) == CHOOSE r \in 0..2000 : r * r <= n /\ (r + 1) * (r + 1) > n

\* Cross product of the two edges, normalised to length 1.0 (= Metre).
\* A normal along one axis is exact; any other direction is first scaled
\* to three decimal digits.
compute_face_normal(v0, v1, v2) ==
    LET e1 == <<v1[1] - v0[1], v1[2] - v0[2], v1[3] - v0[3]>>
        e2 == <<v2[1] - v0[1], v2[2] - v0[2], v2[3] - v0[3]>>
        nx == e1[2] * e2[3] - e1[3] * e2[2]
        ny == e1[3] * e2[1] - e1[1] * e2[3]
        nz == e1[1] * e2[2] - e1[2] * e2[1]
        big == Max({Abs(nx), Abs(ny), Abs(nz)})
        sx == (nx * 1000) \div big
        sy == (ny * 1000) \div big
        sz == (nz * 1000) \div big
        length == ISqrt(sx * sx + sy * sy + sz * sz)
    IN  IF big = 0 THEN <<0, 0, Metre>>
        ELSE IF Abs(nx) + Abs(ny) + Abs(nz) = big
             THEN <<Sign(nx) * Metre, Sign(ny) * Metre, Sign(nz) * Metre>>
        ELSE <<(sx * Metre) \div length, (sy * Metre) \div length,
               (sz * Metre) \div length>>

\* Face indices are 0-based as in the source; vertex lists are 1-based.
FaceNormals(vertices, faces) ==
    [k \in 1..Len(faces) |->
        compute_face_normal(vertices[faces[k][1] + 1],
                            vertices[faces[k][2] + 1],
                            vertices[faces[k][3] + 1])]

\* the box faces with the second bottom triangle wound the other way
BoxFacesOneFlipped ==
    << <<0, 1, 2>>, <<0, 3, 2>>,
       <<4, 7, 6>>, <<4, 6, 5>>,
       <<0, 4, 5>>, <<0, 5, 1>>,
       <<2, 6, 7>>, <<2, 7, 3>>,
       <<0, 3, 7>>, <<0, 7, 4>>,
       <<1, 5, 6>>, <<1, 6, 2>> >>

BoxFaces ==
    << <<0, 1, 2>>, <<0, 2, 3>>,
       <<4, 7, 6>>, <<4, 6, 5>>,
       <<0, 4, 5>>, <<0, 5, 1>>,
       <<2, 6, 7>>, <<2, 7, 3>>,
       <<0, 3, 7>>, <<0, 7, 4>>,
       <<1, 5, 6>>, <<1, 6, 2>> >>

generate_box_geometry(width, depth, height, center_x, center_y, center_z) ==
    LET hx == Half(width)
        hy == Half(depth)
        hz == Half(height)
        vertices ==
            << <<center_x - hx, center_y - hy, center_z - hz>>,
               <<center_x + hx, center_y - hy, center_z - hz>>,
               <<center_x + hx, center_y + hy, center_z - hz>>,
               <<center_x - hx, center_y + hy, center_z - hz>>,
               <<center_x - hx, center_y - hy, center_z + hz>>,
               <<center_x + hx, center_y - hy, center_z + hz>>,
               <<center_x + hx, center_y + hy, center_z + hz>>,
               <<center_x - hx, center_y + hy, center_z + hz>> >>
    IN  [vertices |-> vertices, faces |-> BoxFaces,
         normals |-> FaceNormals(vertices, BoxFaces)]

RoundDiv(a, b) == (2 * a + b) \div (2 * b)

\* 1000 * cos(2*pi*i/12); the sine is the cosine three steps earlier
Cos12(i) ==
    <<1000, 866, 500, 0, -500, -866, -1000, -866, -500, 0, 500, 866>>[(i % 12) + 1]

Sin12(i) == Cos12(i + 9)

\* cos and sin of 2*pi*i/segments, for a segment count that divides 12
RingX(radius, i, segments) == RoundDiv(radius * Cos12((i * 12) \div segments), 1000)

RingY(radius, i, segments) == RoundDiv(radius * Sin12((i * 12) \div segments), 1000)

CylinderFaces(segments) ==
    [i \in 1..segments |-> <<0, i, (i % segments) + 1>>]
    \o [k \in 1..(2 * segments) |->
          LET i == (k - 1) \div 2
              next_i == (i + 1) % segments
          IN  IF k % 2 = 1
              THEN <<i + 1, segments + 2 + i, segments + 2 + next_i>>
              ELSE <<i + 1, segments + 2 + next_i, next_i + 1>>]
    \o [i \in 1..segments |->
          <<segments + 1, segments + 2 + (i % segments), segments + 1 + i>>]

generate_cylinder_geometry(radius, height, segments, center_x, center_y, center_z) ==
    LET ring(z) == [i \in 1..segments |->
                      <<center_x + RingX(radius, i - 1, segments),
                        center_y + RingY(radius, i - 1, segments), z>>]
        vertices == <<<<center_x, center_y, center_z>>>> \o ring(center_z)
                    \o <<<<center_x, center_y, center_z + height>>>>
                    \o ring(center_z + height)
    IN  [vertices |-> vertices, faces |-> CylinderFaces(segments),
         normals |-> FaceNormals(vertices, CylinderFaces(segments))]

generate_column_geometry(center_x, center_y, center_z, diameter, height) ==
    generate_cylinder_geometry(Half(diameter), height, COLUMN_SEGMENTS,
                               center_x, center_y, center_z)

generate_wall_geometry(center_x, center_y, center_z, thickness, length, height) ==
    generate_box_geometry(length, thickness, height, center_x, center_y,
                          center_z + Half(height))

\* door panel, 50 mm thick
generate_door_geometry(center_x, center_y, center_z, width, height) ==
    generate_box_geometry(width, 2, height, center_x, center_y,
                          center_z + Half(height))

\* window frame, 100 mm thick, 1 m above the floor
generate_window_geometry(center_x, center_y, center_z, width, height) ==
    generate_box_geometry(width, 4, height, center_x, center_y,
                          center_z + (Metre + Half(height)))

\* dims.get(key, default) on the parsed dimensions dict
Get(dims, key, default) == IF key \in DOMAIN dims THEN dims[key] ELSE default

EmptyDict == [k \in {} |-> 0]

\* "dims = dimensions or {}" keeps a truthy value that is no dict (a number
\* other than 0, a list with items), and the first dims.get then raises
\* AttributeError
RaisesAttributeError(dimensions) ==
    \/ dimensions.kind = "number" /\ dimensions.val # 0
    \/ dimensions.kind = "list" /\ dimensions.items # <<>>

\* "dims = dimensions or {}": None and the empty dict give the empty dict
generate_element_geometry(ifc_class, center_x, center_y, center_z, dimensions) ==
    LET dims == IF dimensions.kind = "object" THEN dimensions.obj ELSE EmptyDict
    IN  CASE ifc_class = "IfcWall" ->
               generate_wall_geometry(center_x, center_y, center_z,
                   Clamp(4, Get(dims, "width", DEFAULT_WALL_THICKNESS), Metre),
                   Clamp(4, Get(dims, "length", Metre), 50 * Metre),
                   Get(dims, "height", DEFAULT_WALL_HEIGHT))
          [] ifc_class = "IfcDoor" ->
               generate_door_geometry(center_x, center_y, center_z,
                   Clamp(20, Get(dims, "width", DEFAULT_DOOR_WIDTH), 3 * Metre),
                   Clamp(72, Get(dims, "height", DEFAULT_DOOR_HEIGHT), 3 * Metre))
          [] ifc_class = "IfcWindow" ->
               generate_window_geometry(center_x, center_y, center_z,
                   Clamp(12, Get(dims, "width", DEFAULT_WINDOW_WIDTH), 5 * Metre),
                   Clamp(12, Get(dims, "height", DEFAULT_WINDOW_HEIGHT), 3 * Metre))
          [] ifc_class = "IfcColumn" ->
               generate_column_geometry(center_x, center_y, center_z,
                   Clamp(8, Get(dims, "diameter", DEFAULT_COLUMN_DIAMETER), 2 * Metre),
                   Get(dims, "height", DEFAULT_COLUMN_HEIGHT))
          [] ifc_class = "IfcBuildingElementProxy" ->
               generate_box_geometry(
                   Get(dims, "length", DEFAULT_EQUIPMENT_SIZE),
                   Get(dims, "width", DEFAULT_EQUIPMENT_SIZE),
                   Get(dims, "height", DEFAULT_EQUIPMENT_SIZE),
                   center_x, center_y,
                   center_z + Half(Get(dims, "height", DEFAULT_EQUIPMENT_SIZE)))
          [] OTHER ->
               LET size == Clamp(4, Get(dims, "length", 20), 2 * Metre)
               IN  generate_box_geometry(size, size, size, center_x, center_y,
                                         center_z + Half(size))

\* Rotation angles are whole quarter turns q (q * pi/2 radians), for which
\* the cosine and the sine are 0, 1 or -1.
CosQ(q) == CASE q % 4 = 0 -> 1 [] q % 4 = 1 -> 0 [] q % 4 = 2 -> -1 [] OTHER -> 0

SinQ(q) == CASE q % 4 = 0 -> 0 [] q % 4 = 1 -> 1 [] q % 4 = 2 -> 0 [] OTHER -> -1

rotate_vertices_z(vertices, angle) ==
    [i \in 1..Len(vertices) |->
        <<vertices[i][1] * CosQ(angle) - vertices[i][2] * SinQ(angle),
          vertices[i][1] * SinQ(angle) + vertices[i][2] * CosQ(angle),
          vertices[i][3]>>]

translate_vertices(vertices, dx, dy, dz) ==
    [i \in 1..Len(vertices) |->
        <<vertices[i][1] + dx, vertices[i][2] + dy, vertices[i][3] + dz>>]


(***************************************************************************)
(* The element database of the geometry pass: elements_meta and            *)
(* element_transforms as the DXF import left them, base_geometries with    *)
(* one row per guid (guid TEXT UNIQUE), elements_rtree keyed by the id of  *)
(* elements_meta.  Guids are numbers that stand for the text in collation  *)
(* order.                                                                  *)
(***************************************************************************)
NumElements == 2   \* elements in the database

NullDims == [kind |-> "NULL"]

ObjectDims(obj) == [kind |-> "object", obj |-> obj]

\* What the import may hold for the element with a given id.
WallAtOrigin ==
    [ifc_class |-> "IfcWall", center |-> <<0, 0, 0>>, rotation_z |-> 0,
     dimensions |-> ObjectDims([length |-> 160])]

WallRotated ==
    [ifc_class |-> "IfcWall", center |-> <<10, 6, 0>>, rotation_z |-> 1,
     dimensions |-> NullDims]

DoorOffGrid ==
    [ifc_class |-> "IfcDoor", center |-> <<7, -3, 0>>, rotation_z |-> 0,
     dimensions |-> NullDims]

SmallFurniture ==
    [ifc_class |-> "IfcFurniture", center |-> <<0, 0, 0>>, rotation_z |-> 0,
     dimensions |-> ObjectDims([length |-> 24])]

\* a dimensions column that holds the JSON text of a number, "5"
WindowNumberDims ==
    [ifc_class |-> "IfcWindow", center |-> <<0, 0, 0>>, rotation_z |-> 0,
     dimensions |-> [kind |-> "number", val |-> 5]]

\* a dimensions column that holds the JSON text of a list, "[1, 2]"
FurnitureListDims ==
    [ifc_class |-> "IfcFurniture", center |-> <<0, 0, 0>>, rotation_z |-> 0,
     dimensions |-> [kind |-> "list", items |-> <<1, 2>>]]

\* a dimensions column that holds text that is no JSON
TextDims == [kind |-> "text"]

ElementChoices(id) ==
    CASE id % 3 = 1 -> {WallAtOrigin, WallRotated}
      [] id % 3 = 2 -> {WallAtOrigin, DoorOffGrid, WindowNumberDims}
      [] OTHER -> {WallRotated, SmallFurniture, FurnitureListDims}

GuidOf(id) == 100 + id

\* Angles and length that extract_wall_angles may read from the drawing.
DxfAngles == {1}

DxfLength == 3 * Metre

\* elements_rtree stores 32-bit floats: minima round down, maxima up
RtreeRow(id, box) ==
    [id |-> id,
     minX |-> FloorF32(box.minX), maxX |-> CeilF32(box.maxX),
     minY |-> FloorF32(box.minY), maxY |-> CeilF32(box.maxY),
     minZ |-> FloorF32(box.minZ), maxZ |-> CeilF32(box.maxZ)]

\* the 1 m placeholder cube around the element's centre
PlaceholderCube(c) ==
    [minX |-> c[1] - Half(Metre), maxX |-> c[1] + Half(Metre),
     minY |-> c[2] - Half(Metre), maxY |-> c[2] + Half(Metre),
     minZ |-> c[3] - Half(Metre), maxZ |-> c[3] + Half(Metre)]

InitGeom ==
    /\ \E choice \in [1..NumElements -> UNION {ElementChoices(i) : i \in 1..3}] :
         /\ \A i \in 1..NumElements : choice[i] \in ElementChoices(i)
         /\ elements_meta =
              [i \in 1..NumElements |->
                 [id |-> i, guid |-> GuidOf(i),
                  ifc_class |-> choice[i].ifc_class,
                  dimensions |-> choice[i].dimensions]]
         /\ element_transforms =
              [i \in 1..NumElements |->
                 [guid |-> GuidOf(i),
                  center_x |-> choice[i].center[1],
                  center_y |-> choice[i].center[2],
                  center_z |-> choice[i].center[3],
                  rotation_z |-> choice[i].rotation_z,
                  length |-> Metre]]
         /\ \E indexed \in SUBSET (1..NumElements) :
              elements_rtree =
                 LET all == [i \in 1..NumElements |->
                               RtreeRow(i, PlaceholderCube(choice[i].center))]
                     Keep(r) == r.id \in indexed
                 IN  SelectSeq(all, Keep)
    /\ base_geometries = <<>>
    /\ element_instances = <<>>
    /\ template_hashes = <<>>
    /\ stats = [pass |-> "import"]
    /\ call = NoValue
    /\ ret = NoValue

(***************************************************************************)
(* generate_3d_geometry.populate_geometry_tables                           *)
(***************************************************************************)
ClassRank(c) ==
    CASE c = "IfcBuildingElementProxy" -> 1
      [] c = "IfcColumn" -> 2
      [] c = "IfcDoor" -> 3
      [] c = "IfcFurniture" -> 4
      [] c = "IfcWall" -> 5
      [] c = "IfcWindow" -> 6
      [] OTHER -> 7

TransformOf(transforms, guid) ==
    CHOOSE t \in Range(transforms) : t.guid = guid

HasTransform(transforms, guid) == \E t \in Range(transforms) : t.guid = guid

\* elements_meta m JOIN element_transforms t ON m.guid = t.guid
JoinMetaTransforms(meta, transforms) ==
    LET Joined(m) == HasTransform(transforms, m.guid)
        rows == SelectSeq(meta, Joined)
    IN  [i \in 1..Len(rows) |->
           [id |-> rows[i].id, guid |-> rows[i].guid,
            ifc_class |-> rows[i].ifc_class,
            dimensions |-> rows[i].dimensions,
            center_x |-> TransformOf(transforms, rows[i].guid).center_x,
            center_y |-> TransformOf(transforms, rows[i].guid).center_y,
            center_z |-> TransformOf(transforms, rows[i].guid).center_z,
            rotation_z |-> TransformOf(transforms, rows[i].guid).rotation_z]]

\* ORDER BY m.ifc_class, m.guid
ByClassGuid(a, b) ==
    \/ ClassRank(a.ifc_class) < ClassRank(b.ifc_class)
    \/ ClassRank(a.ifc_class) = ClassRank(b.ifc_class) /\ a.guid < b.guid

\* LIMIT n; no limit when the argument is None or 0
Limit(rows, limit) ==
    IF limit = 0 \/ limit >= Len(rows) THEN rows ELSE SubSeq(rows, 1, limit)

\* "if dimensions_json: try: json.loads(...) except: pass": None when the
\* column is NULL or the empty string, when the text is no JSON and when it
\* is the JSON null; otherwise the decoded object, number or list
ParseDimensions(dimensions_json) ==
    CASE dimensions_json.kind \in {"NULL", "empty"} -> NullDims
      [] dimensions_json.kind = "text" -> NullDims
      [] dimensions_json.kind = "json_null" -> NullDims
      [] OTHER -> dimensions_json

\* The geometry of one element: generated at the origin, rotated about the
\* origin, translated to the centre, packed and hashed.
\* the vertices moved to the centre first and turned about the world
\* origin afterwards
TranslatedThenRotated(local, e) ==
    LET moved == translate_vertices(local, e.center_x, e.center_y, e.center_z)
    IN  IF e.rotation_z # 0 THEN rotate_vertices_z(moved, e.rotation_z) ELSE moved

\* the vertices turned about the local origin and then moved to the centre
PlacedVertices(local, e) ==
    LET rotated == IF e.rotation_z # 0
                   THEN rotate_vertices_z(local, e.rotation_z)
                   ELSE local
    IN  translate_vertices(rotated, e.center_x, e.center_y, e.center_z)

GeometryRow(e) ==
    LET result == generate_element_geometry(e.ifc_class, 0, 0, 0,
                                            ParseDimensions(e.dimensions))
        vertices == PlacedVertices(result.vertices, e)
        vertices_blob == pack_vertices(vertices)
        faces_blob == pack_faces(result.faces)
    IN  [guid |-> e.guid,
         geometry_hash |-> compute_hash(vertices_blob, faces_blob),
         vertices |-> vertices_blob,
         faces |-> faces_blob,
         normals |-> pack_normals(result.normals)]

\* INSERT OR IGNORE: the row is dropped when it breaks UNIQUE(guid)
InsertOrIgnoreGuid(table, row) ==
    IF \E r \in Range(table) : r.guid = row.guid THEN table
    ELSE Append(table, row)

\* The loop over the elements: the call of generate_element_geometry stands
\* outside every try, so its exception leaves the loop and the function.
RECURSIVE PopulateLoop(_, _)
PopulateLoop(elements, table) ==
    IF elements = <<>> THEN [raised |-> FALSE, table |-> table]
    ELSE IF RaisesAttributeError(ParseDimensions(Head(elements).dimensions))
         THEN [raised |-> TRUE, table |-> table]
         ELSE PopulateLoop(Tail(elements),
                  InsertOrIgnoreGuid(table, GeometryRow(Head(elements))))

\* The inserts are committed at the end (and every 100 processed rows); a
\* pass that raises never commits and the connection drops its inserts.
populate_geometry_tables(limit) ==
    LET elements == Limit(SortSeq(JoinMetaTransforms(elements_meta,
                                                     element_transforms),
                                  ByClassGuid), limit)
        outcome == PopulateLoop(elements, base_geometries)
    IN  /\ base_geometries' = IF outcome.raised THEN base_geometries
                              ELSE outcome.table
        /\ stats' = IF outcome.raised
                    THEN [pass |-> "aborted", raised |-> "AttributeError",
                          total |-> Len(elements)]
                    ELSE [pass |-> "populate", total |-> Len(elements),
                          processed |-> Len(elements), skipped |-> 0]
        /\ UNCHANGED <<elements_meta, element_transforms, element_instances,
                       elements_rtree, template_hashes, call, ret>>

(***************************************************************************)
(* extract_wall_angles.update_database_with_angles                         *)
(***************************************************************************)
NoMatch == [matched |-> FALSE]

Match(angle, length) == [matched |-> TRUE, angle |-> angle, length |-> length]

\* find_closest_wall: the nearest wall of the drawing within 2 m of the
\* position, or None; closest gives the answer for each position asked.
find_closest_wall(closest, cx, cy) == closest[<<cx, cy>>]

update_database_with_angles(closest) ==
    LET Updated(t) ==
          LET walls == {m \in Range(elements_meta) :
                          /\ m.guid = t.guid
                          /\ m.ifc_class \in {"IfcWall", "IfcDoor", "IfcWindow"}}
              wall_data == find_closest_wall(closest, t.center_x, t.center_y)
          IN  IF walls # {} /\ wall_data.matched
              THEN [t EXCEPT !.rotation_z = wall_data.angle,
                             !.length = wall_data.length]
              ELSE t
        matched == {t \in Range(element_transforms) : Updated(t) # t}
    IN  /\ element_transforms' =
              [i \in 1..Len(element_transforms) |-> Updated(element_transforms[i])]
        /\ stats' = [pass |-> "angles", changed |-> Cardinality(matched)]
        /\ UNCHANGED <<elements_meta, base_geometries, element_instances,
                       elements_rtree, template_hashes, call, ret>>


(***************************************************************************)
(* fix_rtree_bboxes.fix_rtree_bboxes                                       *)
(***************************************************************************)
\* elements_meta m JOIN base_geometries bg ON m.guid = bg.guid ORDER BY m.id
JoinMetaGeometries(meta, geometries) ==
    LET pairs == {<<m, bg>> \in Range(meta) \X Range(geometries) :
                     m.guid = bg.guid}
        ById(a, b) == a[1].id < b[1].id
        SetToSeq(S) == CHOOSE f \in [1..Cardinality(S) -> S] :
                          \A x \in S : \E i \in DOMAIN f : f[i] = x
    IN  SortSeq(SetToSeq(pairs), ById)

\* One pass of the loop body: the element is skipped (failed) when its
\* blob raises in unpack_vertices or holds no vertex.
Unpackable(vertices_blob) ==
    /\ ~unpack_vertices(vertices_blob).raised
    /\ unpack_vertices(vertices_blob).value # <<>>

BBoxUpdates(elements) ==
    LET Ok(e) == Unpackable(e[2].vertices)
        good == SelectSeq(elements, Ok)
    IN  [i \in 1..Len(good) |->
           [id |-> good[i][1].id,
            box |-> calculate_bbox(unpack_vertices(good[i][2].vertices).value)]]

\* UPDATE elements_rtree SET ... WHERE id = ?, once per entry of updates,
\* in order: only rows that exist are changed
RECURSIVE UpdateRtree(_, _)
UpdateRtree(rtree, updates) ==
    IF updates = <<>> THEN rtree
    ELSE LET u == Head(updates)
         IN  UpdateRtree([i \in 1..Len(rtree) |->
                            IF rtree[i].id = u.id THEN RtreeRow(u.id, u.box)
                            ELSE rtree[i]],
                         Tail(updates))

fix_rtree_bboxes ==
    LET elements == JoinMetaGeometries(elements_meta, base_geometries)
        updates == BBoxUpdates(elements)
    IN  /\ IF elements = <<>>
           THEN /\ stats' = [pass |-> "fix", total |-> 0, updated |-> 0,
                             failed |-> 0, success |-> FALSE]
                /\ UNCHANGED elements_rtree
           ELSE /\ stats' = [pass |-> "fix", total |-> Len(elements),
                             updated |-> Len(updates),
                             failed |-> Len(elements) - Len(updates),
                             success |-> TRUE]
                /\ elements_rtree' = UpdateRtree(elements_rtree, updates)
        /\ UNCHANGED <<elements_meta, element_transforms, base_geometries,
                       element_instances, template_hashes, call, ret>>

(***************************************************************************)
(* add_geometries.add_geometries_to_database                               *)
(***************************************************************************)
\* (width, height, depth) by class
get_element_size(ifc_class) ==
    CASE ifc_class = "IfcWall" -> <<8, 120, 6>>
      [] ifc_class = "IfcWindow" -> <<48, 60, 4>>
      [] ifc_class = "IfcDoor" -> <<40, 84, 2>>
      [] ifc_class = "IfcColumn" -> <<16, 120, 16>>
      [] ifc_class = "IfcBuildingElementProxy" -> <<20, 20, 20>>
      [] OTHER -> <<20, 20, 20>>

\* One blob: vertex count, face count, the vertices as floats, the faces
create_box_mesh(x, y, z, width, height, depth) ==
    LET hw == Half(width)
        hh == Half(height)
        hd == Half(depth)
        vertices == << <<x - hw, y - hd, z - hh>>, <<x + hw, y - hd, z - hh>>,
                       <<x + hw, y + hd, z - hh>>, <<x - hw, y + hd, z - hh>>,
                       <<x - hw, y - hd, z + hh>>, <<x + hw, y - hd, z + hh>>,
                       <<x + hw, y + hd, z + hh>>, <<x - hw, y + hd, z + hh>> >>
        faces == << <<0, 1, 2>>, <<0, 2, 3>>, <<4, 6, 5>>, <<4, 7, 6>>,
                    <<0, 5, 1>>, <<0, 4, 5>>, <<3, 2, 6>>, <<3, 6, 7>>,
                    <<0, 3, 7>>, <<0, 7, 4>>, <<1, 5, 6>>, <<1, 6, 2>> >>
    IN  <<Len(vertices), Len(faces)>> \o pack_vertices(vertices)
        \o pack_faces(faces)

NullBlob == <<>>

add_geometries_to_database ==
    LET elements == JoinMetaTransforms(elements_meta, element_transforms)
        Size(e) == get_element_size(e.ifc_class)
        Blob(e) == create_box_mesh(e.center_x, e.center_y, e.center_z,
                                   Size(e)[1], Size(e)[2], Size(e)[3])
        Box(e) == [minX |-> e.center_x - Half(Size(e)[1]),
                   maxX |-> e.center_x + Half(Size(e)[1]),
                   minY |-> e.center_y - Half(Size(e)[3]),
                   maxY |-> e.center_y + Half(Size(e)[3]),
                   minZ |-> e.center_z - Half(Size(e)[2]),
                   maxZ |-> e.center_z + Half(Size(e)[2])]
    IN  /\ base_geometries' =
              [i \in 1..Len(elements) |->
                 [guid |-> elements[i].guid,
                  geometry_hash |-> [text |-> <<"hash_", elements[i].guid>>],
                  vertices |-> Blob(elements[i]),
                  faces |-> Blob(elements[i]),
                  normals |-> NullBlob]]
        /\ elements_rtree' =
              [i \in 1..Len(elements) |-> RtreeRow(elements[i].id, Box(elements[i]))]
        /\ stats' = [pass |-> "add", inserted |-> Len(elements)]
        /\ UNCHANGED <<elements_meta, element_transforms, element_instances,
                       template_hashes, call, ret>>

(***************************************************************************)
(* The scripts run one at a time, in any order, on the same database.      *)
(***************************************************************************)
Positions == {<<t.center_x, t.center_y>> : t \in Range(element_transforms)}

Matches == {NoMatch} \cup {Match(a, DxfLength) : a \in DxfAngles}

Populate == \E limit \in {0, 1} : populate_geometry_tables(limit)

UpdateAngles == \E closest \in [Positions -> Matches] :
                    update_database_with_angles(closest)

FixRtree == fix_rtree_bboxes

AddGeometries == add_geometries_to_database

NextGeom == Populate \/ UpdateAngles \/ FixRtree \/ AddGeometries

SpecGeom == InitGeom /\ [][NextGeom]_vars


(***************************************************************************)
(* Properties of the geometry pass and of the index pass.                  *)
(***************************************************************************)
RtreeRowsOf(id) == {r \in Range(elements_rtree) : r.id = id}

GeometriesOf(guid) == {bg \in Range(base_geometries) : bg.guid = guid}

FixRan == stats.pass = "fix" /\ stats.success

\* the row is the tight box of the vertices: every vertex is inside it and
\* each of its six faces is touched by a vertex
TightBox(r, vertices) ==
    /\ \A i \in DOMAIN vertices :
          /\ r.minX <= vertices[i][1] /\ vertices[i][1] <= r.maxX
          /\ r.minY <= vertices[i][2] /\ vertices[i][2] <= r.maxY
          /\ r.minZ <= vertices[i][3] /\ vertices[i][3] <= r.maxZ
    /\ \E i \in DOMAIN vertices : vertices[i][1] = r.minX
    /\ \E i \in DOMAIN vertices : vertices[i][1] = r.maxX
    /\ \E i \in DOMAIN vertices : vertices[i][2] = r.minY
    /\ \E i \in DOMAIN vertices : vertices[i][2] = r.maxY
    /\ \E i \in DOMAIN vertices : vertices[i][3] = r.minZ
    /\ \E i \in DOMAIN vertices : vertices[i][3] = r.maxZ

(***************************************************************************)
(* C1: after fix_rtree_bboxes, the elements_rtree row of every element     *)
(* whose stored vertices blob unpacks to at least one vertex is the        *)
(* per-axis minimum and maximum of those vertices.                         *)
(***************************************************************************)
C1_TightAfterFix ==
    FixRan =>
        \A m \in Range(elements_meta) : \A bg \in GeometriesOf(m.guid) :
            Unpackable(bg.vertices) =>
                \A r \in RtreeRowsOf(m.id) :
                    TightBox(r, unpack_vertices(bg.vertices).value)

\* a rotated wall whose row no longer is the placeholder cube it held
C1_Witness ==
    /\ FixRan
    /\ \E m \in Range(elements_meta) : \E bg \in GeometriesOf(m.guid) :
          \E r \in RtreeRowsOf(m.id) :
             /\ Unpackable(bg.vertices)
             /\ m.ifc_class = "IfcWall"
             /\ r.maxY - r.minY > r.maxX - r.minX
             /\ r # RtreeRow(m.id,
                      PlaceholderCube(<<TransformOf(element_transforms, m.guid).center_x,
                                        TransformOf(element_transforms, m.guid).center_y,
                                        TransformOf(element_transforms, m.guid).center_z>>))

(***************************************************************************)
(* C3: when populate_geometry_tables has processed every element and       *)
(* fix_rtree_bboxes runs next, each element whose geometry was generated   *)
(* by populate_geometry_tables holds the vertices generated from its       *)
(* current transform, and its index row is their box.                      *)
(***************************************************************************)
GeneratedByPopulate(bg) == bg.geometry_hash = compute_hash(bg.vertices, bg.faces)

FreshFor(e, bg) == bg.vertices = GeometryRow(e).vertices

C3_RegenerationRefreshes ==
    [][(/\ stats.pass = "populate"
        /\ stats.total = Len(elements_meta)
        /\ stats'.pass = "fix")
       => \A i \in 1..Len(JoinMetaTransforms(elements_meta', element_transforms')) :
            LET e == JoinMetaTransforms(elements_meta', element_transforms')[i]
            IN  \A bg \in {g \in Range(base_geometries') : g.guid = e.guid} :
                   GeneratedByPopulate(bg) =>
                      /\ FreshFor(e, bg)
                      /\ \A r \in {x \in Range(elements_rtree') : x.id = e.id} :
                            TightBox(r, unpack_vertices(GeometryRow(e).vertices).value)
      ]_vars

(***************************************************************************)
(* C4: after fix_rtree_bboxes, every element whose geometry is empty or    *)
(* cannot be unpacked is counted as failed and has no index row left.      *)
(***************************************************************************)
FailedElements ==
    {m \in Range(elements_meta) :
        \E bg \in GeometriesOf(m.guid) : ~Unpackable(bg.vertices)}

C4_FailedHaveNoBox ==
    FixRan =>
        /\ stats.failed = Cardinality(FailedElements)
        /\ \A m \in FailedElements : RtreeRowsOf(m.id) = {}

(***************************************************************************)
(* C5: after fix_rtree_bboxes, elements_rtree has a row for every element  *)
(* that has a non-empty, unpackable vertices blob.                         *)
(***************************************************************************)
C5_EveryGeometryIndexed ==
    FixRan =>
        \A m \in Range(elements_meta) : \A bg \in GeometriesOf(m.guid) :
            Unpackable(bg.vertices) => RtreeRowsOf(m.id) # {}

(***************************************************************************)
(* C7: base_geometries never holds two rows with the same geometry hash.   *)
(***************************************************************************)
C7_OneRowPerHash ==
    \A i, j \in DOMAIN base_geometries :
        base_geometries[i].geometry_hash = base_geometries[j].geometry_hash
            => i = j


(***************************************************************************)
(* generate_arc_str_database.py: template geometries, then one world-      *)
(* positioned box per extracted element.                                   *)
(***************************************************************************)
MaxArcElements == 3   \* elements extracted from the DXF files

\* box on the ground plane, centred on the origin in x and y
arc_generate_box_geometry(width, depth, height) ==
    LET hx == Half(width)
        hy == Half(depth)
        vertices ==
            << <<0 - hx, 0 - hy, 0>>, <<hx, 0 - hy, 0>>,
               <<hx, hy, 0>>, <<0 - hx, hy, 0>>,
               <<0 - hx, 0 - hy, height>>, <<hx, 0 - hy, height>>,
               <<hx, hy, height>>, <<0 - hx, hy, height>> >>
    IN  [vertices |-> vertices, faces |-> BoxFaces,
         normals |-> FaceNormals(vertices, BoxFaces)]

generate_box_at_position(width, depth, height, cx, cy, cz) ==
    LET hx == Half(width)
        hy == Half(depth)
        vertices ==
            << <<cx - hx, cy - hy, cz>>, <<cx + hx, cy - hy, cz>>,
               <<cx + hx, cy + hy, cz>>, <<cx - hx, cy + hy, cz>>,
               <<cx - hx, cy - hy, cz + height>>, <<cx + hx, cy - hy, cz + height>>,
               <<cx + hx, cy + hy, cz + height>>, <<cx - hx, cy + hy, cz + height>> >>
    IN  [vertices |-> vertices, faces |-> BoxFaces,
         normals |-> FaceNormals(vertices, BoxFaces)]

arc_generate_cylinder_geometry(radius, height, segments) ==
    LET ring(z) == [i \in 1..segments |->
                      <<RingX(radius, i - 1, segments),
                        RingY(radius, i - 1, segments), z>>]
        vertices == <<<<0, 0, 0>>>> \o ring(0)
                    \o <<<<0, 0, height>>>> \o ring(height)
    IN  [vertices |-> vertices, faces |-> CylinderFaces(segments),
         normals |-> FaceNormals(vertices, CylinderFaces(segments))]

\* a row of base_geometries; geometry_hash is the primary key
GeometryRecord(mesh) ==
    LET v_blob == pack_vertices(mesh.vertices)
        f_blob == pack_faces(mesh.faces)
    IN  [geometry_hash |-> compute_hash(v_blob, f_blob),
         vertices |-> v_blob, faces |-> f_blob,
         normals |-> pack_normals(mesh.normals),
         vertex_count |-> Len(mesh.vertices), face_count |-> Len(mesh.faces)]

HashesOf(table) == {table[i].geometry_hash : i \in DOMAIN table}

\* INSERT OR REPLACE on the primary key geometry_hash
InsertOrReplaceHash(table, row) ==
    SelectSeq(table, LAMBDA r : r.geometry_hash # row.geometry_hash) \o <<row>>

\* a table without the key: the row is always added
InsertAlways(table, row) == Append(table, row)

\* INSERT OR IGNORE on the primary key geometry_hash
InsertOrIgnoreHash(table, row) ==
    IF row.geometry_hash \in HashesOf(table) THEN table ELSE Append(table, row)

\* the templates file: element classes per discipline, lengths in 25 mm
Templates ==
    [arc_elements |->
        << [ifc_class |-> "IfcWall", geometry_type |-> "extrusion",
            parameters |-> [thickness_m |-> 8, height_m |-> 120]],
           [ifc_class |-> "IfcColumn", geometry_type |-> "cylinder",
            parameters |-> [width_m |-> 16, height_m |-> 160]],
           [ifc_class |-> "IfcFurniture", geometry_type |-> "mesh",
            parameters |-> EmptyDict] >>,
     str_elements |->
        << [ifc_class |-> "IfcColumn", geometry_type |-> "box",
            parameters |-> [width_m |-> 30, height_m |-> 160]],
           [ifc_class |-> "IfcBeam", geometry_type |-> "box",
            parameters |-> [width_m |-> 12, depth_m |-> 28]],
           [ifc_class |-> "IfcSlab", geometry_type |-> "box",
            parameters |-> [thickness_m |-> 12]] >>,
     floor_elevations_m |-> ("1F" :> 0) @@ ("3F" :> 320)]

ArcTemplateMesh(template) ==
    LET params == template.parameters
    IN  IF template.geometry_type \in {"box", "extrusion"}
        THEN LET width == Get(params, "width_m", Get(params, "thickness_m", 8))
             IN  arc_generate_box_geometry(width, Get(params, "depth_m", width),
                                           Get(params, "height_m", 120))
        ELSE IF template.geometry_type = "cylinder"
        THEN arc_generate_cylinder_geometry(Half(Get(params, "width_m", 16)),
                                            Get(params, "height_m", 160), 12)
        ELSE arc_generate_box_geometry(Metre, Metre, Metre)

StrTemplateMesh(template) ==
    LET params == template.parameters
    IN  IF template.ifc_class = "IfcColumn"
        THEN LET size == Get(params, "width_m", 30)
             IN  arc_generate_box_geometry(size, size, Get(params, "height_m", 160))
        ELSE IF template.ifc_class = "IfcBeam"
        THEN arc_generate_box_geometry(Metre, Get(params, "width_m", 12),
                                       Get(params, "depth_m", 28))
        ELSE LET width == Get(params, "width_m", Get(params, "thickness_m", 12))
             IN  arc_generate_box_geometry(width, Get(params, "depth_m", width),
                                           Get(params, "height_m", 12))

\* all template meshes in the order the two loops visit them
TemplateMeshes(templates) ==
    [i \in 1..Len(templates.arc_elements) |->
        [key |-> <<"ARC", templates.arc_elements[i].ifc_class>>,
         row |-> GeometryRecord(ArcTemplateMesh(templates.arc_elements[i]))]]
    \o [i \in 1..Len(templates.str_elements) |->
        [key |-> <<"STR", templates.str_elements[i].ifc_class>>,
         row |-> GeometryRecord(StrTemplateMesh(templates.str_elements[i]))]]

RECURSIVE StoreTemplates(_, _)
StoreTemplates(table, meshes) ==
    IF meshes = <<>> THEN table
    ELSE StoreTemplates(InsertOrReplaceHash(table, Head(meshes).row), Tail(meshes))

create_template_geometries(templates) ==
    /\ stats.pass = "schema"
    /\ base_geometries' = StoreTemplates(base_geometries, TemplateMeshes(templates))
    /\ template_hashes' =
          [i \in 1..Len(TemplateMeshes(templates)) |->
              [key |-> TemplateMeshes(templates)[i].key,
               geometry_hash |-> TemplateMeshes(templates)[i].row.geometry_hash]]
    /\ stats' = [pass |-> "templates", created |-> Len(TemplateMeshes(templates))]
    /\ UNCHANGED <<elements_meta, element_transforms, element_instances,
                   elements_rtree, call, ret>>

\* parameters of the element's class in its discipline's templates
TemplateParams(templates, elem) ==
    LET list == IF elem.discipline = "ARC" THEN templates.arc_elements
                ELSE templates.str_elements
        found == SelectSeq(list, LAMBDA t : t.ifc_class = elem.ifc_class)
    IN  IF found = <<>> THEN EmptyDict ELSE Head(found).parameters

\* width, depth and height of the element's box; a DXF length widens it
ElementDimensions(params, elem) ==
    LET width == Get(params, "width_m", Get(params, "thickness_m", Half(Metre)))
    IN  [width |-> IF elem.length > 0 THEN Max({width, elem.length}) ELSE width,
         depth |-> Get(params, "depth_m", width),
         height |-> Get(params, "height_m", 3 * Metre)]

\* the box handed to the spatial index, with both horizontal half-sizes
\* taken from the width
RtreeBoxSquare(width, depth, height, cx, cy, cz) ==
    [minX |-> cx - Half(width), maxX |-> cx + Half(width),
     minY |-> cy - Half(width), maxY |-> cy + Half(width),
     minZ |-> cz, maxZ |-> cz + height]

\* the box handed to the spatial index
main_rtree_box(width, depth, height, cx, cy, cz) ==
    [minX |-> cx - Half(width), maxX |-> cx + Half(width),
     minY |-> cy - Half(depth), maxY |-> cy + Half(depth),
     minZ |-> cz, maxZ |-> cz + height]

\* uuid4 guids never repeat
NewGuid(n) == 200 + n

\* one iteration of main's loop over all_elements
main_insert_element(templates, elem) ==
    LET dim == ElementDimensions(TemplateParams(templates, elem), elem)
        mesh == generate_box_at_position(dim.width, dim.depth, dim.height,
                    elem.center_x, elem.center_y, elem.center_z)
        geometry == GeometryRecord(mesh)
        row_id == Len(elements_meta) + 1
        guid == NewGuid(row_id)
    IN  /\ stats.pass \in {"templates", "insert"}
        /\ Len(elements_meta) < MaxArcElements
        /\ base_geometries' = InsertOrIgnoreHash(base_geometries, geometry)
        /\ elements_meta' = Append(elements_meta,
              [id |-> row_id, guid |-> guid, discipline |-> elem.discipline,
               ifc_class |-> elem.ifc_class, storey |-> elem.floor])
        /\ element_instances' = Append(element_instances,
              [guid |-> guid, geometry_hash |-> geometry.geometry_hash])
        /\ element_transforms' = Append(element_transforms,
              [guid |-> guid, center_x |-> elem.center_x, center_y |-> elem.center_y,
               center_z |-> elem.center_z, rotation_z |-> elem.rotation_z,
               length |-> elem.length])
        /\ elements_rtree' = Append(elements_rtree,
              RtreeRow(row_id, main_rtree_box(dim.width, dim.depth, dim.height,
                           elem.center_x, elem.center_y, elem.center_z)))
        /\ stats' = [pass |-> "insert", inserted |-> row_id]
        /\ UNCHANGED <<template_hashes, call, ret>>

\* extraction metadata and commit
main_finish ==
    /\ stats.pass \in {"templates", "insert"}
    /\ stats' = [pass |-> "done", total_elements |-> Len(elements_meta),
                 unique_geometries |-> Len(template_hashes)]
    /\ UNCHANGED <<elements_meta, element_transforms, base_geometries,
                   element_instances, elements_rtree, template_hashes, call, ret>>

\* an extracted element; center_z is the elevation of its floor
Extracted(discipline, ifc_class, floor, x, y, rotation, length) ==
    [discipline |-> discipline, ifc_class |-> ifc_class, floor |-> floor,
     center_x |-> x, center_y |-> y,
     center_z |-> Get(Templates.floor_elevations_m, floor, 0),
     rotation_z |-> rotation, length |-> length]

ArcElements ==
    { Extracted("ARC", "IfcWall", "1F", 40, 20, 0, 120),
      Extracted("ARC", "IfcWall", "1F", 5, 3, 0, 0),
      Extracted("STR", "IfcColumn", "1F", 0, 0, 0, 0),
      Extracted("STR", "IfcBeam", "3F", 20, 10, 1, 80) }

\* the state after create_database_schema on a fresh file
InitArc ==
    /\ elements_meta = <<>>
    /\ element_transforms = <<>>
    /\ base_geometries = <<>>
    /\ element_instances = <<>>
    /\ elements_rtree = <<>>
    /\ template_hashes = <<>>
    /\ stats = [pass |-> "schema"]
    /\ call = NoValue
    /\ ret = NoValue

CreateTemplates == create_template_geometries(Templates)

InsertElement == \E elem \in ArcElements : main_insert_element(Templates, elem)

NextArc == CreateTemplates \/ InsertElement \/ main_finish

SpecArc == InitArc /\ [][NextArc]_vars

(***************************************************************************)
(* Properties of generate_arc_str_database.                                *)
(***************************************************************************)
UniqueHashes(table) ==
    \A i, j \in DOMAIN table :
        table[i].geometry_hash = table[j].geometry_hash => i = j

\* the step is one element insertion of main
IsInsertion == stats'.pass = "insert"

NewInstance == element_instances'[Len(element_instances')]

(***************************************************************************)
(* C2: every element insertion of main leaves base_geometries with at most *)
(* one row per geometry_hash; when the element's hash was already stored   *)
(* the table is left exactly as it was; and the new element_instances row  *)
(* carries a hash that is stored.                                          *)
(***************************************************************************)
C2_InsertOrIgnoreIdempotent ==
    [][IsInsertion =>
          /\ UniqueHashes(base_geometries')
          /\ Len(element_instances') = Len(element_instances) + 1
          /\ NewInstance.geometry_hash \in HashesOf(base_geometries')
          /\ (NewInstance.geometry_hash \in HashesOf(base_geometries)
                 => base_geometries' = base_geometries)
      ]_vars

\* two elements, or an element and a template, ended up on one stored row
C2_Witness ==
    /\ stats.pass = "insert"
    /\ \E i, j \in DOMAIN element_instances :
          /\ i < j
          /\ element_instances[i].geometry_hash = element_instances[j].geometry_hash
          /\ Cardinality({k \in DOMAIN base_geometries :
                 base_geometries[k].geometry_hash
                     = element_instances[i].geometry_hash}) = 1

InstancesOf(guid) ==
    {i \in DOMAIN element_instances : element_instances[i].guid = guid}

RtreeIndexesOf(id) ==
    {i \in DOMAIN elements_rtree : elements_rtree[i].id = id}

BlobOf(hash) ==
    (CHOOSE bg \in Range(base_geometries) : bg.geometry_hash = hash).vertices

\* the element has one instance row with a stored hash and one index row
OneInstanceOneBox(m) ==
    /\ Cardinality(InstancesOf(m.guid)) = 1
    /\ \A i \in InstancesOf(m.guid) :
          element_instances[i].geometry_hash \in HashesOf(base_geometries)
    /\ Cardinality(RtreeIndexesOf(m.id)) = 1

ReferencedVertices(m) ==
    unpack_vertices(BlobOf(element_instances[
        CHOOSE i \in InstancesOf(m.guid) : TRUE].geometry_hash)).value

\* the row encloses the vertices and no side is further than one float
\* step from them
EnclosingBox(r, vertices) ==
    LET box == calculate_bbox(vertices)
    IN  /\ r.minX <= box.minX /\ box.minX - r.minX <= F32Step
        /\ r.minY <= box.minY /\ box.minY - r.minY <= F32Step
        /\ r.minZ <= box.minZ /\ box.minZ - r.minZ <= F32Step
        /\ box.maxX <= r.maxX /\ r.maxX - box.maxX <= F32Step
        /\ box.maxY <= r.maxY /\ r.maxY - box.maxY <= F32Step
        /\ box.maxZ <= r.maxZ /\ r.maxZ - box.maxZ <= F32Step

C8_NoTemplateBlobStored ==
    stats.pass = "done" =>
        \A bg \in Range(base_geometries) :
            \E i \in DOMAIN element_instances :
                element_instances[i].geometry_hash = bg.geometry_hash

(***************************************************************************)
(* geometry_generators.py: the generator classes and the factory.          *)
(* Rotations are whole quarter turns, as for rotate_vertices_z.            *)
(***************************************************************************)
BoxGenerator_generate(width, depth, height, cx, cy, cz) ==
    LET hx == Half(width)
        hy == Half(depth)
        vertices ==
            << <<cx - hx, cy - hy, cz>>, <<cx + hx, cy - hy, cz>>,
               <<cx + hx, cy + hy, cz>>, <<cx - hx, cy + hy, cz>>,
               <<cx - hx, cy - hy, cz + height>>, <<cx + hx, cy - hy, cz + height>>,
               <<cx + hx, cy + hy, cz + height>>, <<cx - hx, cy + hy, cz + height>> >>
    IN  [vertices |-> vertices, faces |-> BoxFaces,
         normals |-> FaceNormals(vertices, BoxFaces)]

OrientedBoxGenerator_generate(length, width, height, cx, cy, cz, rotation) ==
    LET hl == Half(length)
        hw == Half(width)
        cos_r == CosQ(rotation)
        sin_r == SinQ(rotation)
        local_corners == << <<0 - hl, 0 - hw>>, <<hl, 0 - hw>>,
                            <<hl, hw>>, <<0 - hl, hw>> >>
        ring(z) == [k \in 1..4 |->
                      <<cx + local_corners[k][1] * cos_r - local_corners[k][2] * sin_r,
                        cy + local_corners[k][1] * sin_r + local_corners[k][2] * cos_r,
                        z>>]
        vertices == ring(cz) \o ring(cz + height)
    IN  [vertices |-> vertices, faces |-> BoxFaces,
         normals |-> FaceNormals(vertices, BoxFaces)]

\* the cylinder faces with a single triangle for each side quad
GeneratorCylinderFacesHalfSides(segments) ==
    LET top_center == segments + 1
    IN  [k \in 1..segments |->
            <<0, 1 + (k % segments), k>>]
        \o [k \in 1..segments |->
            <<top_center, top_center + k, top_center + 1 + (k % segments)>>]
        \o [k \in 1..segments |->
            <<k, 1 + (k % segments), top_center + 1 + (k % segments)>>]

\* bottom fan, top fan, then two triangles per side quad
GeneratorCylinderFaces(segments) ==
    LET top_center == segments + 1
    IN  [k \in 1..segments |->
            <<0, 1 + (k % segments), k>>]
        \o [k \in 1..segments |->
            <<top_center, top_center + k, top_center + 1 + (k % segments)>>]
        \o [k \in 1..(2 * segments) |->
            LET i == (k - 1) \div 2
                b1 == 1 + i
                b2 == 1 + ((i + 1) % segments)
                t1 == top_center + 1 + i
                t2 == top_center + 1 + ((i + 1) % segments)
            IN  IF k % 2 = 1 THEN <<b1, b2, t2>> ELSE <<b1, t2, t1>>]

CylinderGenerator_generate(radius, height, cx, cy, cz, segments) ==
    LET ring(z) == [i \in 1..segments |->
                      <<cx + RingX(radius, i - 1, segments),
                        cy + RingY(radius, i - 1, segments), z>>]
        vertices == <<<<cx, cy, cz>>>> \o ring(cz)
                    \o <<<<cx, cy, cz + height>>>> \o ring(cz + height)
        faces == GeneratorCylinderFaces(segments)
    IN  [vertices |-> vertices, faces |-> faces,
         normals |-> FaceNormals(vertices, faces)]

\* faces of a wall extruded along n points, bottom_count = 2 * n
PolylineFaces(n) ==
    LET bottom_count == 2 * n
        caps == [k \in 1..(4 * (n - 1)) |->
                   LET i == (k - 1) \div 4
                       b0 == i * 2
                       b1 == i * 2 + 1
                       b2 == (i + 1) * 2
                       b3 == (i + 1) * 2 + 1
                   IN  CASE (k - 1) % 4 = 0 -> <<b0, b2, b1>>
                         [] (k - 1) % 4 = 1 -> <<b1, b2, b3>>
                         [] (k - 1) % 4 = 2 ->
                              <<bottom_count + b0, bottom_count + b1, bottom_count + b2>>
                         [] OTHER ->
                              <<bottom_count + b1, bottom_count + b3, bottom_count + b2>>]
        sides == [k \in 1..(4 * (n - 1)) |->
                   LET i == (k - 1) \div 4
                       b0 == i * 2
                       b2 == (i + 1) * 2
                       b1 == i * 2 + 1
                       b3 == (i + 1) * 2 + 1
                   IN  CASE (k - 1) % 4 = 0 -> <<b0, bottom_count + b0, bottom_count + b2>>
                         [] (k - 1) % 4 = 1 -> <<b0, bottom_count + b2, b2>>
                         [] (k - 1) % 4 = 2 -> <<b1, b3, bottom_count + b3>>
                         [] OTHER -> <<b1, bottom_count + b3, bottom_count + b1>>]
        e0 == (n - 1) * 2
        e1 == (n - 1) * 2 + 1
        ends == << <<0, 1, bottom_count + 1>>, <<0, bottom_count + 1, bottom_count>>,
                   <<e0, bottom_count + e0, bottom_count + e1>>,
                   <<e0, bottom_count + e1, e1>> >>
    IN  caps \o sides \o ends

\* the offset of half the thickness, perpendicular to the path at point i
PolylineOffset(points, i, ht) ==
    LET n == Len(points)
        a == IF i = 1 THEN points[1] ELSE IF i = n THEN points[n - 1] ELSE points[i - 1]
        b == IF i = 1 THEN points[2] ELSE IF i = n THEN points[n] ELSE points[i + 1]
        dx == b[1] - a[1]
        dy == b[2] - a[2]
        length == ISqrt(dx * dx + dy * dy)
    IN  IF length > 0
        THEN <<RoundDiv((0 - dy) * ht, length), RoundDiv(dx * ht, length)>>
        ELSE <<0, ht>>

\* raised is TRUE when the call ends in an IndexError
ExtrudedPolylineGenerator_generate(points, thickness, height, cz) ==
    IF Len(points) = 0
    THEN [raised |-> TRUE, vertices |-> <<>>, faces |-> <<>>, normals |-> <<>>]
    ELSE IF Len(points) < 2
    THEN [raised |-> FALSE] @@
         BoxGenerator_generate(Metre, thickness, height,
                               points[1][1], points[1][2], cz)
    ELSE LET n == Len(points)
             ht == Half(thickness)
             layer(z) == [k \in 1..(2 * n) |->
                            LET i == ((k - 1) \div 2) + 1
                                off == PolylineOffset(points, i, ht)
                            IN  IF k % 2 = 1
                                THEN <<points[i][1] + off[1], points[i][2] + off[2], z>>
                                ELSE <<points[i][1] - off[1], points[i][2] - off[2], z>>]
             vertices == layer(cz) \o layer(cz + height)
         IN  [raised |-> FALSE, vertices |-> vertices, faces |-> PolylineFaces(n),
              normals |-> FaceNormals(vertices, PolylineFaces(n))]

SlabGenerator_generate(width, depth, thickness, cx, cy, cz) ==
    BoxGenerator_generate(width, depth, thickness, cx, cy, cz)

Unraised(mesh) == [raised |-> FALSE] @@ mesh

\* geometry_generators.generate_element_geometry; polyline_points is the
\* empty list when the element has none
generator_generate_element_geometry(elem, templates) ==
    LET params == TemplateParams(templates, elem)
        cx == elem.center_x
        cy == elem.center_y
        cz == elem.center_z
        rotation == elem.rotation_z
        length == elem.length
        width == Get(params, "width_m", Get(params, "thickness_m", Half(Metre)))
        depth == Get(params, "depth_m", width)
        height == Get(params, "height_m", 3 * Metre)
    IN  CASE elem.ifc_class = "IfcColumn" ->
               Unraised(CylinderGenerator_generate(Half(width), height, cx, cy, cz,
                                                   COLUMN_SEGMENTS))
          [] elem.ifc_class = "IfcBeam" ->
               Unraised(OrientedBoxGenerator_generate(
                   IF length > 0 THEN length ELSE width,
                   Get(params, "width_m", 12), Get(params, "depth_m", 28),
                   cx, cy, cz, rotation))
          [] elem.ifc_class = "IfcWall" ->
               IF elem.polyline_points # <<>>
               THEN ExtrudedPolylineGenerator_generate(elem.polyline_points,
                        Get(params, "thickness_m", 8), height, cz)
               ELSE Unraised(OrientedBoxGenerator_generate(
                        IF length > 0 THEN length ELSE width,
                        Get(params, "thickness_m", 8), height, cx, cy, cz, rotation))
          [] elem.ifc_class \in {"IfcSlab", "IfcPlate"} ->
               LET slab_length == IF length > 0 THEN length ELSE width
                   from_template == Get(params, "depth_m", slab_length)
                   slab_depth == IF from_template < Metre THEN slab_length
                                 ELSE from_template
               IN  Unraised(SlabGenerator_generate(slab_length, slab_depth,
                        Get(params, "thickness_m", 6), cx, cy, cz))
          [] OTHER ->
               Unraised(BoxGenerator_generate(IF length > 0 THEN length ELSE width,
                                              depth, height, cx, cy, cz))

(***************************************************************************)
(* Calls of the generators on sample arguments; a behaviour is one call.   *)
(***************************************************************************)
MaxPoints == 3   \* longest polyline handed to ExtrudedPolylineGenerator

SegmentChoices == {3, 4, 6, 12}

Centres == {<<0, 0, 0>>, <<10, 6, 40>>}

PolylinePoints == {<<0, 0>>, <<80, 0>>, <<80, 60>>}

Polylines == SeqsUpTo(PolylinePoints, MaxPoints)

\* elements as the factories receive them
FactoryElement(discipline, ifc_class, c, rotation, length, points) ==
    [discipline |-> discipline, ifc_class |-> ifc_class, floor |-> "1F",
     center_x |-> c[1], center_y |-> c[2], center_z |-> c[3],
     rotation_z |-> rotation, length |-> length, polyline_points |-> points]

FactoryElements ==
    { FactoryElement(d, c, p, r, l, <<>>) :
        d \in {"ARC", "STR"},
        c \in {"IfcColumn", "IfcBeam", "IfcWall", "IfcSlab", "IfcDoor"},
        p \in {<<10, 6, 40>>}, r \in {0, 1}, l \in {0, 200} }
    \cup { FactoryElement("ARC", "IfcWall", <<0, 0, 0>>, 0, 80, pts) :
             pts \in {<< <<0, 0>> >>, << <<0, 0>>, <<80, 0>> >>} }

InitGen ==
    /\ elements_meta = <<>>
    /\ element_transforms = <<>>
    /\ base_geometries = <<>>
    /\ element_instances = <<>>
    /\ elements_rtree = <<>>
    /\ template_hashes = <<>>
    /\ stats = NoStats
    /\ call = NoValue
    /\ ret = NoValue

Invocation(fn, args) == [fn |-> fn, args |-> args]

Returned(fn, result) ==
    [fn |-> fn, raised |-> result.raised, vertices |-> result.vertices,
     faces |-> result.faces, normals |-> result.normals]

CallBox ==
    \E w \in {40, 80}, d \in {20, 40}, h \in {12, 120}, c \in Centres :
        /\ call = NoValue
        /\ call' = Invocation("BoxGenerator",
                       [width |-> w, depth |-> d, height |-> h, c |-> c])
        /\ ret' = Returned("BoxGenerator",
                       Unraised(BoxGenerator_generate(w, d, h, c[1], c[2], c[3])))
        /\ UNCHANGED dbvars

CallOrientedBox ==
    \E l \in {400, 80}, w \in {80}, h \in {120}, c \in Centres, r \in 0..3 :
        /\ call = NoValue
        /\ call' = Invocation("OrientedBoxGenerator",
                       [length |-> l, width |-> w, height |-> h, c |-> c,
                        rotation |-> r])
        /\ ret' = Returned("OrientedBoxGenerator",
                       Unraised(OrientedBoxGenerator_generate(l, w, h,
                                                              c[1], c[2], c[3], r)))
        /\ UNCHANGED dbvars

CallCylinder ==
    \E radius \in {8, 20}, h \in {120}, c \in Centres, segments \in SegmentChoices :
        /\ call = NoValue
        /\ call' = Invocation("CylinderGenerator",
                       [radius |-> radius, height |-> h, c |-> c,
                        segments |-> segments])
        /\ ret' = Returned("CylinderGenerator",
                       Unraised(CylinderGenerator_generate(radius, h, c[1], c[2], c[3],
                                                           segments)))
        /\ UNCHANGED dbvars

CallExtrudedPolyline ==
    \E points \in Polylines, thickness \in {8}, h \in {120}, cz \in {0, 40} :
        /\ call = NoValue
        /\ call' = Invocation("ExtrudedPolylineGenerator",
                       [points |-> points, thickness |-> thickness, height |-> h,
                        cz |-> cz])
        /\ ret' = Returned("ExtrudedPolylineGenerator",
                       ExtrudedPolylineGenerator_generate(points, thickness, h, cz))
        /\ UNCHANGED dbvars

CallFactory ==
    \E elem \in FactoryElements :
        /\ call = NoValue
        /\ call' = Invocation("geometry_generators.generate_element_geometry",
                       [elem |-> elem])
        /\ ret' = Returned("geometry_generators.generate_element_geometry",
                       generator_generate_element_geometry(elem, Templates))
        /\ UNCHANGED dbvars

\* elements as populate_geometry_tables reads them
PlacedElements ==
    { [ifc_class |-> c, dimensions |-> d, center_x |-> p[1], center_y |-> p[2],
       center_z |-> p[3], rotation_z |-> r] :
        c \in {"IfcWall", "IfcDoor", "IfcColumn", "IfcBeam"},
        d \in {NullDims, TextDims, ObjectDims([length |-> 400, width |-> 16]),
               ObjectDims([length |-> 90, width |-> 10, height |-> 100])},
        p \in Centres, r \in 0..3 }

\* generation at the origin, rotation and translation of one element
CallPlace ==
    \E e \in PlacedElements :
        LET result == generate_element_geometry(e.ifc_class, 0, 0, 0,
                                                ParseDimensions(e.dimensions))
        IN  /\ call = NoValue
            /\ call' = Invocation("populate_geometry_tables", [elem |-> e])
            /\ ret' = Returned("populate_geometry_tables",
                           Unraised([vertices |-> PlacedVertices(result.vertices, e),
                                     faces |-> result.faces,
                                     normals |-> result.normals]))
            /\ UNCHANGED dbvars

DimensionValues == {0, 0 - Metre, 2 * Metre, 100 * Metre}

DimensionInputs ==
    {NullDims, ObjectDims([height |-> 0])}
    \cup {ObjectDims([length |-> v, width |-> v, height |-> v, diameter |-> v]) :
             v \in DimensionValues}

\* generate_3d_geometry.generate_element_geometry on one class and one
\* dimensions input
CallGenerate ==
    \E c \in {"IfcWall", "IfcDoor", "IfcWindow", "IfcColumn",
               "IfcBuildingElementProxy", "IfcFurniture"},
       d \in DimensionInputs, p \in Centres :
        /\ call = NoValue
        /\ call' = Invocation("generate_element_geometry",
                       [ifc_class |-> c, dimensions |-> d, c |-> p])
        /\ ret' = Returned("generate_element_geometry",
                       Unraised(generate_element_geometry(c, p[1], p[2], p[3], d)))
        /\ UNCHANGED dbvars

NextGen ==
    \/ CallGenerate
    \/ CallBox
    \/ CallOrientedBox
    \/ CallCylinder
    \/ CallExtrudedPolyline
    \/ CallFactory
    \/ CallPlace

SpecGen == InitGen /\ [][NextGen]_vars

(***************************************************************************)
(* Properties of the generated meshes.                                     *)
(***************************************************************************)
GeneratorCalls ==
    {"BoxGenerator", "OrientedBoxGenerator", "CylinderGenerator",
     "ExtrudedPolylineGenerator"}

MeshReturned == ret.fn \in GeneratorCalls /\ ~ret.raised

Dot(a, b) == a[1] * b[1] + a[2] * b[2] + a[3] * b[3]

VertexSum(vertices, indexes) ==
    LET RECURSIVE Sum(_)
        Sum(S) == IF S = {} THEN <<0, 0, 0>>
                  ELSE LET i == CHOOSE x \in S : TRUE
                           rest == Sum(S \ {i})
                       IN  <<rest[1] + vertices[i][1], rest[2] + vertices[i][2],
                             rest[3] + vertices[i][3]>>
    IN  Sum(indexes)

\* the stored normal of face k points from the solid's centroid towards
\* the centroid of the face
FacesOutward(vertices, faces, normals) ==
    LET n == Len(vertices)
        all == VertexSum(vertices, 1..n)
    IN  \A k \in DOMAIN faces :
           LET tri == VertexSum(vertices,
                         {faces[k][1] + 1, faces[k][2] + 1, faces[k][3] + 1})
               away == <<n * tri[1] - 3 * all[1], n * tri[2] - 3 * all[2],
                         n * tri[3] - 3 * all[3]>>
           IN  Dot(normals[k], away) > 0

\* the solids of the sample calls that are convex and have a volume
ConvexCall ==
    \/ ret.fn \in {"BoxGenerator", "OrientedBoxGenerator", "CylinderGenerator"}
    \/ /\ ret.fn = "ExtrudedPolylineGenerator"
       /\ Len(call.args.points) = 2
       /\ call.args.points[1] # call.args.points[2]

(***************************************************************************)
(* C13: every triangle of a mesh returned by Box, OrientedBox, Cylinder    *)
(* or ExtrudedPolyline has its normal (v1-v0) x (v2-v0) pointing away from *)
(* the interior of the solid.                                              *)
(***************************************************************************)
C13_OutwardFacing ==
    (MeshReturned /\ ConvexCall) =>
        FacesOutward(ret.vertices, ret.faces, ret.normals)

DirectedEdges(face) ==
    {<<face[1], face[2]>>, <<face[2], face[3]>>, <<face[3], face[1]>>}

EdgeUses(faces, edge) ==
    Cardinality({k \in DOMAIN faces : edge \in DirectedEdges(faces[k])})

(***************************************************************************)
(* C14: in every returned mesh each directed edge of a triangle occurs in  *)
(* exactly one triangle and its reverse occurs in exactly one triangle.    *)
(***************************************************************************)
C14_ClosedSurface ==
    (MeshReturned /\ (ret.fn = "ExtrudedPolylineGenerator"
                         => Len(call.args.points) >= 2)) =>
        \A k \in DOMAIN ret.faces : \A e \in DirectedEdges(ret.faces[k]) :
            /\ EdgeUses(ret.faces, e) = 1
            /\ EdgeUses(ret.faces, <<e[2], e[1]>>) = 1

\* a wall extruded along a path of three points was returned
C14_Witness ==
    /\ MeshReturned
    /\ ret.fn = "ExtrudedPolylineGenerator"
    /\ Len(call.args.points) = 3
    /\ Len(ret.faces) = 20

(***************************************************************************)
(* C15: every face index of a returned mesh is at least 0 and less than    *)
(* the number of vertices; a box has 8 vertices and 12 triangles, a        *)
(* cylinder of s segments 2s+2 vertices and 4s triangles.                  *)
(***************************************************************************)
C15_WellFormedIndices ==
    (MeshReturned /\ (ret.fn = "ExtrudedPolylineGenerator"
                         => Len(call.args.points) >= 2)) =>
        /\ \A k \in DOMAIN ret.faces : \A a \in 1..3 :
              ret.faces[k][a] >= 0 /\ ret.faces[k][a] < Len(ret.vertices)
        /\ ret.fn \in {"BoxGenerator", "OrientedBoxGenerator"} =>
              Len(ret.vertices) = 8 /\ Len(ret.faces) = 12
        /\ ret.fn = "CylinderGenerator" =>
              /\ Len(ret.vertices) = 2 * call.args.segments + 2
              /\ Len(ret.faces) = 4 * call.args.segments

\* a cylinder of three segments was returned
C15_Witness ==
    /\ MeshReturned
    /\ ret.fn = "CylinderGenerator"
    /\ call.args.segments = 3
    /\ Len(ret.vertices) = 8

(***************************************************************************)
(* C16: ExtrudedPolylineGenerator.generate with fewer than two points      *)
(* does not raise and returns a box of length 1.0 with the given           *)
(* thickness and height.                                                   *)
(***************************************************************************)
C16_DegeneratePolylineFallsBack ==
    (ret.fn = "ExtrudedPolylineGenerator" /\ Len(call.args.points) < 2) =>
        /\ ~ret.raised
        /\ Len(ret.vertices) = 8
        /\ calculate_bbox(ret.vertices).maxX - calculate_bbox(ret.vertices).minX = Metre
        /\ calculate_bbox(ret.vertices).maxY - calculate_bbox(ret.vertices).minY
              = call.args.thickness
        /\ calculate_bbox(ret.vertices).maxZ - calculate_bbox(ret.vertices).minZ
              = call.args.height

Extent(vertices, a) == Max(Axis(vertices, a)) - Min(Axis(vertices, a))

Middle2(vertices, a) == Max(Axis(vertices, a)) + Min(Axis(vertices, a))

\* squared distance of a point from (cx, cy) in the XY plane
Radius2(v, cx, cy) == (v[1] - cx) * (v[1] - cx) + (v[2] - cy) * (v[2] - cy)

\* placed is local turned by a whole number of quarter turns about its own
\* origin and moved to the centre c: heights and distances from the axis
\* through c are kept, the footprint stays centred on c, and an odd number
\* of quarter turns swaps the X and Y extents
TurnedAboutOwnOrigin(placed, local, c, rotation) ==
    /\ Len(placed) = Len(local)
    /\ \A i \in DOMAIN local :
          /\ placed[i][3] = c[3] + local[i][3]
          /\ Radius2(placed[i], c[1], c[2]) = Radius2(local[i], 0, 0)
    /\ Middle2(placed, 1) = 2 * c[1] + Middle2(local, IF rotation % 2 = 1 THEN 2 ELSE 1)
                                        * (IF rotation % 4 \in {1, 2} THEN -1 ELSE 1)
    /\ Middle2(placed, 2) = 2 * c[2] + Middle2(local, IF rotation % 2 = 1 THEN 1 ELSE 2)
                                        * (IF rotation % 4 \in {2, 3} THEN -1 ELSE 1)
    /\ Extent(placed, 1) = Extent(local, IF rotation % 2 = 1 THEN 2 ELSE 1)
    /\ Extent(placed, 2) = Extent(local, IF rotation % 2 = 1 THEN 1 ELSE 2)

(***************************************************************************)
(* C17: stored vertices are the local vertices rotated about the local     *)
(* origin and then translated to the element's centre: z is the local z    *)
(* plus cz, the footprint stays centred on (cx, cy) for every angle, and   *)
(* a quarter turn of a 10 x 2 footprint has X-extent 2 and Y-extent 10.    *)
(***************************************************************************)
C17_RotateThenTranslate ==
    /\ ret.fn = "OrientedBoxGenerator" =>
          LET a == call.args
              local == OrientedBoxGenerator_generate(a.length, a.width, a.height,
                                                     0, 0, 0, 0).vertices
          IN  /\ TurnedAboutOwnOrigin(ret.vertices, local, a.c, a.rotation)
              /\ Middle2(ret.vertices, 1) = 2 * a.c[1]
              /\ Middle2(ret.vertices, 2) = 2 * a.c[2]
              /\ (a.rotation = 1 /\ a.length = 10 * Metre /\ a.width = 2 * Metre) =>
                    Extent(ret.vertices, 1) = 2 * Metre
                       /\ Extent(ret.vertices, 2) = 10 * Metre
    /\ ret.fn = "populate_geometry_tables" =>
          LET e == call.args.elem
              local == generate_element_geometry(e.ifc_class, 0, 0, 0,
                                                 ParseDimensions(e.dimensions)).vertices
          IN  /\ TurnedAboutOwnOrigin(ret.vertices, local,
                                      <<e.center_x, e.center_y, e.center_z>>,
                                      e.rotation_z)
              /\ Middle2(ret.vertices, 1) = 2 * e.center_x
              /\ Middle2(ret.vertices, 2) = 2 * e.center_y

\* a 10 m wall away from the origin was placed after a quarter turn
C17_Witness ==
    /\ ret.fn = "populate_geometry_tables"
    /\ call.args.elem.rotation_z = 1
    /\ call.args.elem.ifc_class = "IfcWall"
    /\ call.args.elem.center_x # 0
    /\ Extent(ret.vertices, 2) = 10 * Metre

(***************************************************************************)
(* C20: whatever the dimensions column of an element holds, a pass of      *)
(* populate_geometry_tables does not abort, and a pass over all elements   *)
(* leaves a geometry row for every element.                                *)
(***************************************************************************)
C20_DimensionsNeverAbort ==
    stats.pass \in {"populate", "aborted"} =>
        /\ stats.pass = "populate"
        /\ stats.total = Len(elements_meta) =>
               \A m \in Range(elements_meta) : GeometriesOf(m.guid) # {}

(***************************************************************************)
(* C18: whatever the dimensions input, the mesh returned by                *)
(* generate_3d_geometry.generate_element_geometry has an extent on each of *)
(* the three axes that is strictly positive and at most 50 m, the largest  *)
(* bound of any class range.                                               *)
(***************************************************************************)
C18_ClampedExtent ==
    ret.fn = "generate_element_geometry" =>
        \A a \in 1..3 :
            Extent(ret.vertices, a) > 0 /\ Extent(ret.vertices, a) <= 50 * Metre

AxisAligned(vertices) ==
    \A i \in DOMAIN vertices :
        /\ vertices[i][1] \in {Min(Axis(vertices, 1)), Max(Axis(vertices, 1))}
        /\ vertices[i][2] \in {Min(Axis(vertices, 2)), Max(Axis(vertices, 2))}

\* a box of eight vertices whose long side, of the given length, lies along
\* the direction of the rotation
IsOrientedBox(vertices, length, rotation) ==
    /\ Len(vertices) = 8
    /\ Extent(vertices, IF rotation % 2 = 1 THEN 2 ELSE 1) = length

IsCylinder(vertices, faces) ==
    /\ Len(vertices) = 2 * COLUMN_SEGMENTS + 2
    /\ Len(faces) = 4 * COLUMN_SEGMENTS

\* the shape a class is given: ifc_class, length (0 when unknown),
\* rotation and the number of polyline points decide it
SelectedByClass(ifc_class, length, rotation, points, vertices, faces) ==
    CASE ifc_class = "IfcColumn" -> IsCylinder(vertices, faces)
      [] ifc_class = "IfcBeam" ->
            length > 0 => IsOrientedBox(vertices, length, rotation)
      [] ifc_class = "IfcWall" ->
            IF points >= 2 THEN Len(vertices) = 4 * points
            ELSE (points = 0 /\ length > 0) =>
                     IsOrientedBox(vertices, length, rotation)
      [] OTHER -> Len(vertices) = 8 /\ AxisAligned(vertices)

(***************************************************************************)
(* C19: both factories select the shape by class: a column gets a          *)
(* cylinder, a beam and a wall without polyline points an oriented box of  *)
(* the element's length along its rotation, a wall with polyline points an *)
(* extruded polyline, and every other class an axis-aligned box.           *)
(***************************************************************************)
C19_ShapeByClass ==
    /\ ret.fn = "geometry_generators.generate_element_geometry" =>
          LET e == call.args.elem
          IN  ~ret.raised /\ SelectedByClass(e.ifc_class, e.length, e.rotation_z,
                                 Len(e.polyline_points), ret.vertices, ret.faces)
    /\ ret.fn = "populate_geometry_tables" =>
          LET e == call.args.elem
              dims == IF e.dimensions.kind = "object" THEN e.dimensions.obj
                      ELSE EmptyDict
          IN  SelectedByClass(e.ifc_class, Get(dims, "length", 0), e.rotation_z,
                              0, ret.vertices, ret.faces)

(***************************************************************************)
(* corridor_detection.py: CorridorDetector.  Angles are whole degrees;     *)
(* lengths and coordinates are in the 25 mm unit.  Distances are compared  *)
(* by their squares and reported rounded down to the unit.                 *)
(***************************************************************************)
Wall(guid, start_x, start_y, end_x, end_y, length, angle) ==
    [guid |-> guid, start_x |-> start_x, start_y |-> start_y,
     end_x |-> end_x, end_y |-> end_y, length |-> length, angle |-> angle]

\* Wall.midpoint
midpoint(wall) ==
    <<Half(wall.start_x + wall.end_x), Half(wall.start_y + wall.end_y)>>

\* math.degrees(rotation_z) % 360 for a rotation of q quarter turns
WallAngle(rotation_z) == (90 * rotation_z) % 360

\* math.cos(math.radians(rotation_z)) and math.sin(math.radians(rotation_z))
\* in ten-thousandths, for a rotation_z of q quarter turns in radians: the
\* radians are converted to radians once more
CosOfRadians(rotation_z) ==
    CASE rotation_z % 4 = 0 -> 10000
      [] rotation_z % 4 = 1 -> 9996
      [] rotation_z % 4 = 2 -> 9985
      [] OTHER -> 9966

SinOfRadians(rotation_z) ==
    CASE rotation_z % 4 = 0 -> 0
      [] rotation_z % 4 = 1 -> 274
      [] rotation_z % 4 = 2 -> 548
      [] OTHER -> 822

\* ORDER BY et.center_x, et.center_y
ByCentre(a, b) ==
    \/ a.center_x < b.center_x
    \/ a.center_x = b.center_x /\ a.center_y < b.center_y

\* load_walls: the walls of the database appended to self.walls
load_walls(walls) ==
    LET IsWall(m) == m.ifc_class = "IfcWall"
        rows == SortSeq(JoinMetaTransforms(SelectSeq(elements_meta, IsWall),
                                           element_transforms), ByCentre)
        Loaded(row) ==
            LET length == TransformOf(element_transforms, row.guid).length
                half_len == Half(length)
                dx == RoundDiv(half_len * CosOfRadians(row.rotation_z), 10000)
                dy == RoundDiv(half_len * SinOfRadians(row.rotation_z), 10000)
            IN  Wall(row.guid, row.center_x - dx, row.center_y - dy,
                     row.center_x + dx, row.center_y + dy, length,
                     WallAngle(row.rotation_z))
    IN  walls \o [i \in 1..Len(rows) |-> Loaded(rows[i])]

\* round(normalized_angle / angle_tolerance) * angle_tolerance; a whole
\* number of degrees is never half way between two multiples of 5
angle_key(wall, angle_tolerance) ==
    ((2 * (wall.angle % 180) + angle_tolerance) \div (2 * angle_tolerance))
        * angle_tolerance

\* find_parallel_walls: the groups of two walls or more, in the order in
\* which their keys first appear
find_parallel_walls(walls, angle_tolerance) ==
    LET FirstOfKey(i) ==
            \A j \in 1..(i - 1) :
                angle_key(walls[j], angle_tolerance)
                    # angle_key(walls[i], angle_tolerance)
        firsts == SelectSeq([i \in 1..Len(walls) |-> i], FirstOfKey)
        Group(i) ==
            LET SameKey(w) == angle_key(w, angle_tolerance)
                                  = angle_key(walls[i], angle_tolerance)
            IN  SelectSeq(walls, SameKey)
        groups == [k \in 1..Len(firsts) |-> Group(firsts[k])]
        TwoOrMore(g) == Len(g) >= 2
    IN  SelectSeq(groups, TwoOrMore)

\* the overlap of _check_wall_overlap: on the Y axis when wall1 is within
\* 45 degrees of the vertical, on the X axis otherwise
WallOverlap(wall1, wall2) ==
    IF Abs(wall1.angle - 90) < 45 \/ Abs(wall1.angle - 270) < 45
    THEN Min({Max({wall1.start_y, wall1.end_y}), Max({wall2.start_y, wall2.end_y})})
           - Max({Min({wall1.start_y, wall1.end_y}), Min({wall2.start_y, wall2.end_y})})
    ELSE Min({Max({wall1.start_x, wall1.end_x}), Max({wall2.start_x, wall2.end_x})})
           - Max({Min({wall1.start_x, wall1.end_x}), Min({wall2.start_x, wall2.end_x})})

check_wall_overlap(wall1, wall2, min_overlap) ==
    WallOverlap(wall1, wall2) >= min_overlap

\* the square of the distance between the midpoints
MidpointDistance2(wall1, wall2) ==
    LET mid1 == midpoint(wall1)
        mid2 == midpoint(wall2)
    IN  (mid2[1] - mid1[1]) * (mid2[1] - mid1[1])
          + (mid2[2] - mid1[2]) * (mid2[2] - mid1[2])

\* min_width <= distance <= max_width
WidthInRange(distance2, min_width, max_width) ==
    min_width * min_width <= distance2 /\ distance2 <= max_width * max_width

RECURSIVE PairsFrom(_, _, _, _)
PairsFrom(parallel_walls, i, max_width, min_width) ==
    IF i > Len(parallel_walls) THEN <<>>
    ELSE LET wall1 == parallel_walls[i]
             Accepted(wall2) ==
                 /\ WidthInRange(MidpointDistance2(wall1, wall2),
                                 min_width, max_width)
                 /\ check_wall_overlap(wall1, wall2, 2 * Metre)
             rest == SelectSeq(SubSeq(parallel_walls, i + 1, Len(parallel_walls)),
                               Accepted)
         IN  [k \in 1..Len(rest) |->
                 [wall1 |-> wall1, wall2 |-> rest[k],
                  distance2 |-> MidpointDistance2(wall1, rest[k]),
                  distance |-> ISqrt(MidpointDistance2(wall1, rest[k]))]]
             \o PairsFrom(parallel_walls, i + 1, max_width, min_width)

detect_corridor_pairs(parallel_walls, max_width, min_width) ==
    PairsFrom(parallel_walls, 1, max_width, min_width)

\* the classification with the bounds included in the longer class
CorridorTypeInclusive(length2, distance2) ==
    IF length2 >= (40 * Metre) * (40 * Metre)
         /\ distance2 >= (3 * Metre) * (3 * Metre) THEN "main"
    ELSE IF length2 >= (20 * Metre) * (20 * Metre) THEN "secondary"
    ELSE "cross"

\* 'main' when corridor_length > 20.0 and width > 3.0, 'secondary' when
\* corridor_length > 10.0, else 'cross'; length2 is the square of twice the
\* length, distance2 the square of the width
CorridorType(length2, distance2) ==
    IF length2 > (40 * Metre) * (40 * Metre)
         /\ distance2 > (3 * Metre) * (3 * Metre) THEN "main"
    ELSE IF length2 > (20 * Metre) * (20 * Metre) THEN "secondary"
    ELSE "cross"

\* create_corridor_centerlines: the length is that of the line from the
\* mean of the starts to the mean of the ends, here taken between the sums
\* and halved
create_corridor_centerlines(corridor_pairs) ==
    [idx \in 1..Len(corridor_pairs) |->
        LET wall1 == corridor_pairs[idx].wall1
            wall2 == corridor_pairs[idx].wall2
            dx2 == (wall1.end_x + wall2.end_x) - (wall1.start_x + wall2.start_x)
            dy2 == (wall1.end_y + wall2.end_y) - (wall1.start_y + wall2.start_y)
            length2 == dx2 * dx2 + dy2 * dy2      \* (2 * corridor_length)^2
            angle == wall1.angle
        IN  [corridor_id |-> idx,
             corridor_type |->
                 CorridorType(length2, corridor_pairs[idx].distance2),
             centerline_points |->
                 << <<Half(wall1.start_x + wall2.start_x),
                      Half(wall1.start_y + wall2.start_y)>>,
                    <<Half(midpoint(wall1)[1] + midpoint(wall2)[1]),
                      Half(midpoint(wall1)[2] + midpoint(wall2)[2])>>,
                    <<Half(wall1.end_x + wall2.end_x),
                      Half(wall1.end_y + wall2.end_y)>> >>,
             width |-> corridor_pairs[idx].distance,
             length |-> Half(ISqrt(length2)),
             direction |->
                 IF Abs(angle) < 45 \/ Abs(angle - 180) < 45 THEN "horizontal"
                 ELSE IF Abs(angle - 90) < 45 \/ Abs(angle - 270) < 45
                      THEN "vertical"
                      ELSE "diagonal",
             angle |-> angle,
             wall_pairs |-> << <<wall1.guid, wall2.guid>> >>]]

RECURSIVE AllPairs(_)
AllPairs(groups) ==
    IF groups = <<>> THEN <<>>
    ELSE detect_corridor_pairs(Head(groups), 8 * Metre, Half(3 * Metre))
           \o AllPairs(Tail(groups))

\* detect_corridors of a detector whose self.walls is the list given: the
\* record of the walls held afterwards and of the corridors returned
detect_corridors(self_walls) ==
    LET walls == load_walls(self_walls)
    IN  IF Len(walls) < 4
        THEN [walls |-> walls, corridors |-> <<>>]
        ELSE [walls |-> walls,
              corridors |-> create_corridor_centerlines(
                                AllPairs(find_parallel_walls(walls, 5)))]

(***************************************************************************)
(* The wall snapshots the detector reads, and the detector run of main().  *)
(***************************************************************************)
MaxRows == 6   \* rows of the element catalogue a snapshot is drawn from

\* class, centre, length and rotation of the rows a snapshot may hold
CatalogueRow(i) ==
    CASE i = 1 -> [ifc_class |-> "IfcWall", center |-> <<500, 0>>,
                   length |-> 25 * Metre, rotation_z |-> 0]
      [] i = 2 -> [ifc_class |-> "IfcWall", center |-> <<500, 2 * Metre>>,
                   length |-> 25 * Metre, rotation_z |-> 0]
      [] i = 3 -> [ifc_class |-> "IfcWall", center |-> <<500, 12 * Metre>>,
                   length |-> 25 * Metre, rotation_z |-> 0]
      [] i = 4 -> [ifc_class |-> "IfcWall", center |-> <<100, 200>>,
                   length |-> 5 * Metre, rotation_z |-> 1]
      [] i = 5 -> [ifc_class |-> "IfcColumn", center |-> <<260, 200>>,
                   length |-> Metre, rotation_z |-> 0]
      [] i = 6 -> [ifc_class |-> "IfcWall", center |-> <<260, 200>>,
                   length |-> 5 * Metre, rotation_z |-> 1]
      [] OTHER -> [ifc_class |-> "IfcWall",
                   center |-> <<500, (12 + 3 * (i - 6)) * Metre>>,
                   length |-> 25 * Metre, rotation_z |-> 0]

RECURSIVE Ascending(_)
Ascending(S) ==
    IF S = {} THEN <<>> ELSE <<Min(S)>> \o Ascending(S \ {Min(S)})

InitCorridor ==
    /\ \E present \in SUBSET (1..MaxRows) :
         LET ids == Ascending(present)
         IN  /\ elements_meta =
                  [k \in 1..Len(ids) |->
                     [id |-> ids[k], guid |-> GuidOf(ids[k]),
                      ifc_class |-> CatalogueRow(ids[k]).ifc_class,
                      dimensions |-> NullDims]]
             /\ element_transforms =
                  [k \in 1..Len(ids) |->
                     [guid |-> GuidOf(ids[k]),
                      center_x |-> CatalogueRow(ids[k]).center[1],
                      center_y |-> CatalogueRow(ids[k]).center[2],
                      center_z |-> 0,
                      rotation_z |-> CatalogueRow(ids[k]).rotation_z,
                      length |-> CatalogueRow(ids[k]).length]]
    /\ base_geometries = <<>>
    /\ element_instances = <<>>
    /\ elements_rtree = <<>>
    /\ template_hashes = <<>>
    /\ stats = NoStats
    /\ call = NoValue
    /\ ret = NoValue

MaxRuns == 2   \* calls of detect_corridors on one detector

\* main(): a new CorridorDetector, whose self.walls is empty, and a call of
\* detect_corridors; a further call on the same detector finds self.walls
\* as the call before left it
DetectCorridors ==
    LET self_walls == IF call = NoValue THEN <<>> ELSE ret.walls
        run == IF call = NoValue THEN 1 ELSE call.args.run + 1
    IN  /\ call.fn \in {"none", "detect_corridors"}
        /\ run <= MaxRuns
        /\ call' = Invocation("detect_corridors",
                              [self_walls |-> self_walls, run |-> run])
        /\ ret' = [fn |-> "detect_corridors",
                   walls |-> detect_corridors(self_walls).walls,
                   corridors |-> detect_corridors(self_walls).corridors]
        /\ UNCHANGED dbvars

NextCorridor == DetectCorridors

SpecCorridor == InitCorridor /\ [][NextCorridor]_vars

(***************************************************************************)
(* detect_corridor_pairs on the walls of one orientation bucket.           *)
(***************************************************************************)
MaxBucket == 3   \* walls in the bucket handed to detect_corridor_pairs

\* horizontal walls 25 m long at 0, 1.5, 2, 8 and 10 m; short horizontal
\* walls that overlap by 2 m and by a little less; two vertical walls; two
\* walls along (4, 3) that overlap by 2.5 m along their axis
BucketWalls ==
    { Wall(1, 0, 0, 1000, 0, 1000, 0),
      Wall(2, 0, 60, 1000, 60, 1000, 0),
      Wall(3, 0, 80, 1000, 80, 1000, 0),
      Wall(4, 0, 320, 1000, 320, 1000, 0),
      Wall(5, 0, 400, 1000, 400, 1000, 0),
      Wall(6, 200, 0, 0, 0, 200, 180),
      Wall(7, 120, 80, 320, 80, 200, 0),
      Wall(8, 124, 80, 324, 80, 200, 0),
      Wall(9, 0, 0, 0, 200, 200, 90),
      Wall(10, 120, 200, 120, 0, 200, 270),
      Wall(11, 0, 0, 160, 120, 200, 37),
      Wall(12, 140, -20, 300, 100, 200, 37) }

Buckets ==
    {b \in SeqsUpTo(BucketWalls, MaxBucket) :
        /\ Len(b) >= 2
        /\ \A i, j \in DOMAIN b :
              /\ i < j => b[i].guid # b[j].guid
              /\ angle_key(b[i], 5) = angle_key(b[j], 5)}

InitPairs == InitGen

CallDetectPairs ==
    \E b \in Buckets :
        /\ call = NoValue
        /\ call' = Invocation("detect_corridor_pairs", [parallel_walls |-> b])
        /\ ret' = [fn |-> "detect_corridor_pairs",
                   pairs |-> detect_corridor_pairs(b, 8 * Metre, Half(3 * Metre))]
        /\ UNCHANGED dbvars

\* a candidate as detect_corridor_pairs hands it on: the two walls and the
\* distance of their midpoints
Candidate(wall1, wall2) ==
    [wall1 |-> wall1, wall2 |-> wall2,
     distance2 |-> MidpointDistance2(wall1, wall2),
     distance |-> ISqrt(MidpointDistance2(wall1, wall2))]

WallLengths == {10 * Metre, 20 * Metre, 25 * Metre}

DirectionAngles ==
    {0, 44, 45, 46, 90, 134, 135, 136, 180, 224, 225, 226, 270, 314, 315, 316,
     350, 359}

\* the representative wall of a pair: along y = 0 from x = 0, with the
\* angle given
FirstWalls ==
    {Wall(1, 0, 0, l, 0, l, 0) : l \in WallLengths}
    \cup {Wall(1, 0, 0, 10 * Metre, 0, 10 * Metre, a) : a \in DirectionAngles}

\* the wall facing it at 2, 3 or 4 m, drawn in the same direction or in
\* the opposite one
SecondWalls ==
    {Wall(2, 0, y, l, y, l, 0) : l \in WallLengths, y \in {2 * Metre, 3 * Metre, 4 * Metre}}
    \cup {Wall(2, l, y, 0, y, l, 180) :
             l \in WallLengths, y \in {2 * Metre, 3 * Metre, 4 * Metre}}

CallCenterlines ==
    \E wall1 \in FirstWalls, wall2 \in SecondWalls :
        /\ call = NoValue
        /\ call' = Invocation("create_corridor_centerlines",
                              [wall1 |-> wall1, wall2 |-> wall2])
        /\ ret' = [fn |-> "create_corridor_centerlines",
                   corridors |-> create_corridor_centerlines(
                                     <<Candidate(wall1, wall2)>>)]
        /\ UNCHANGED dbvars

GroupingAngles == {0, 1, 2, 90, 178, 179, 180, 359}

\* find_parallel_walls on a detector that holds walls of the angles given;
\* the result as the list of the dictionary's items
CallFindParallel ==
    \E angles \in SeqsUpTo(GroupingAngles, MaxBucket) :
        LET walls == [i \in DOMAIN angles |->
                         Wall(i, 0, i * Metre, 10 * Metre, i * Metre,
                              10 * Metre, angles[i])]
            groups == find_parallel_walls(walls, 5)
        IN  /\ call = NoValue
            /\ Len(angles) >= 2
            /\ call' = Invocation("find_parallel_walls", [walls |-> walls])
            /\ ret' = [fn |-> "find_parallel_walls",
                       groups |-> [k \in DOMAIN groups |->
                                     [key |-> angle_key(Head(groups[k]), 5),
                                      walls |-> groups[k]]]]
            /\ UNCHANGED dbvars

(***************************************************************************)
(* Corridor.get_trunk_routing_points                                       *)
(***************************************************************************)
\* int(seg_length / segment_length), from the square of seg_length
IntRatio(seg_length2, segment_length) ==
    CHOOSE n \in 0..40 :
        /\ n * n * segment_length * segment_length <= seg_length2
        /\ seg_length2 < (n + 1) * (n + 1) * segment_length * segment_length

\* the number of pieces rounded up instead of down
NumSegmentsRoundedUp(seg_length2, segment_length) ==
    Max({1, IntRatio(seg_length2, segment_length) + 1})

\* num_segments = max(1, int(seg_length / segment_length))
NumSegments(seg_length2, segment_length) ==
    Max({1, IntRatio(seg_length2, segment_length)})

\* the points appended for the segment from start to end: none when its
\* length is 0, else the points at t = j / num_segments, the end included
SegmentPoints(start, end, segment_length) ==
    LET dx == end[1] - start[1]
        dy == end[2] - start[2]
        seg_length2 == dx * dx + dy * dy
        num_segments == NumSegments(seg_length2, segment_length)
    IN  IF seg_length2 > 0
        THEN [j \in 1..num_segments |->
                 <<start[1] + RoundDiv(dx * j, num_segments),
                   start[2] + RoundDiv(dy * j, num_segments)>>]
        ELSE <<>>

RECURSIVE RoutingFrom(_, _, _)
RoutingFrom(centerline_points, i, segment_length) ==
    IF i > Len(centerline_points) THEN <<>>
    ELSE SegmentPoints(centerline_points[i - 1], centerline_points[i],
                       segment_length)
           \o RoutingFrom(centerline_points, i + 1, segment_length)

get_trunk_routing_points(centerline_points, segment_length) ==
    IF Len(centerline_points) < 2 THEN centerline_points
    ELSE <<centerline_points[1]>>
           \o RoutingFrom(centerline_points, 2, segment_length)

MaxCenterline == 3   \* points of the centerline of a corridor

\* the corners a centerline may visit, in this order and with repeats:
\* (0, 0), (12.5, 0), (25, 0), (25, 6) in metres
RouteCorners == << <<0, 0>>, <<500, 0>>, <<1000, 0>>, <<1000, 240>> >>

Centerlines ==
    {[i \in DOMAIN at |-> RouteCorners[at[i]]] :
        at \in {a \in SeqsUpTo(DOMAIN RouteCorners, MaxCenterline) :
                   \A i \in DOMAIN a : i > 1 => a[i - 1] <= a[i]}}

CallRouting ==
    \E centerline_points \in Centerlines,
       segment_length \in {5 * Metre, 3 * Metre} :
        /\ call = NoValue
        /\ call' = Invocation("get_trunk_routing_points",
                       [centerline_points |-> centerline_points,
                        segment_length |-> segment_length])
        /\ ret' = [fn |-> "get_trunk_routing_points",
                   points |-> get_trunk_routing_points(centerline_points,
                                                       segment_length)]
        /\ UNCHANGED dbvars

NextPairs ==
    \/ CallDetectPairs
    \/ CallCenterlines
    \/ CallFindParallel
    \/ CallRouting

SpecPairs == InitPairs /\ [][NextPairs]_vars

(***************************************************************************)
(* C11: on a snapshot whose walls are exactly the two walls of rotation 0  *)
(* along y = 0 and y = 2 m, each spanning x in [0, 25 m], detect_corridors *)
(* returns exactly one corridor, of width 2 m and length 25 m, of type     *)
(* 'secondary' and direction 'horizontal'.                                 *)
(***************************************************************************)
WallGuids == {m.guid : m \in {r \in Range(elements_meta) : r.ifc_class = "IfcWall"}}

TwoWallSnapshot == WallGuids = {GuidOf(1), GuidOf(2)}

C11_TwoWallsOneCorridor ==
    (ret.fn = "detect_corridors" /\ call.args.run = 1 /\ TwoWallSnapshot) =>
        /\ Len(ret.corridors) = 1
        /\ ret.corridors[1].width = 2 * Metre
        /\ ret.corridors[1].length = 25 * Metre
        /\ ret.corridors[1].corridor_type = "secondary"
        /\ ret.corridors[1].direction = "horizontal"

\* the extent of the walls' overlap along the direction of wall1, times the
\* length of wall1
AxisOverlapTimesLength(wall1, wall2) ==
    LET ux == wall1.end_x - wall1.start_x
        uy == wall1.end_y - wall1.start_y
        Along(x, y) == x * ux + y * uy
        a1 == {Along(wall1.start_x, wall1.start_y), Along(wall1.end_x, wall1.end_y)}
        a2 == {Along(wall2.start_x, wall2.start_y), Along(wall2.end_x, wall2.end_y)}
    IN  Min({Max(a1), Max(a2)}) - Max({Min(a1), Min(a2)})

Qualifies(wall1, wall2) ==
    /\ WidthInRange(MidpointDistance2(wall1, wall2), Half(3 * Metre), 8 * Metre)
    /\ AxisOverlapTimesLength(wall1, wall2) >= 2 * Metre * wall1.length

CandidatesOf(pairs, wall1, wall2) ==
    {k \in DOMAIN pairs : pairs[k].wall1 = wall1 /\ pairs[k].wall2 = wall2}

(***************************************************************************)
(* C12: detect_corridor_pairs emits exactly one candidate for each pair of *)
(* distinct walls of the bucket whose midpoints are between 1.5 m and 8 m  *)
(* apart, both bounds included, and whose extents overlap by at least 2 m  *)
(* along the walls' shared axis, and no candidate for any other pair.      *)
(***************************************************************************)
C12_CandidatesAreQualifyingPairs ==
    ret.fn = "detect_corridor_pairs" =>
        LET b == call.args.parallel_walls
        IN  /\ \A i, j \in DOMAIN b :
                  i < j => Cardinality(CandidatesOf(ret.pairs, b[i], b[j]))
                             = IF Qualifies(b[i], b[j]) THEN 1 ELSE 0
            /\ \A k \in DOMAIN ret.pairs :
                  \E i, j \in DOMAIN b :
                      i < j /\ ret.pairs[k].wall1 = b[i] /\ ret.pairs[k].wall2 = b[j]

(***************************************************************************)
(* The store step of generate_arc_str_database run by several workers on   *)
(* one database: each worker runs the statements of one iteration of       *)
(* main's loop for its own element, and the statements of different        *)
(* workers interleave.  A statement is atomic.  call holds, per worker,    *)
(* the element and the statement it is about to run.                       *)
(***************************************************************************)
NumWorkers == 2   \* workers that store concurrently

WorkerElements ==
    { Extracted("ARC", "IfcWall", "1F", 40, 20, 0, 120),
      Extracted("STR", "IfcColumn", "1F", 0, 0, 0, 0) }

InitWorkers ==
    /\ elements_meta = <<>>
    /\ element_transforms = <<>>
    /\ base_geometries = <<>>
    /\ element_instances = <<>>
    /\ elements_rtree = <<>>
    /\ template_hashes = <<>>
    /\ stats = [pass |-> "insert", inserted |-> 0]
    /\ \E elems \in [1..NumWorkers -> WorkerElements] :
          call = [fn |-> "main", elem |-> elems,
                  pc |-> [w \in 1..NumWorkers |-> "base_geometries"]]
    /\ ret = NoValue

WorkerDimensions(w) ==
    ElementDimensions(TemplateParams(Templates, call.elem[w]), call.elem[w])

\* generate_box_at_position, pack and hash for the worker's element
WorkerGeometry(w) ==
    GeometryRecord(generate_box_at_position(
        WorkerDimensions(w).width, WorkerDimensions(w).depth,
        WorkerDimensions(w).height, call.elem[w].center_x,
        call.elem[w].center_y, call.elem[w].center_z))

\* INSERT OR IGNORE INTO base_geometries
StoreGeometry(w) ==
    /\ call.pc[w] = "base_geometries"
    /\ base_geometries' = InsertOrIgnoreHash(base_geometries, WorkerGeometry(w))
    /\ call' = [call EXCEPT !.pc[w] = "elements_meta"]
    /\ UNCHANGED <<elements_meta, element_transforms, element_instances,
                   elements_rtree, template_hashes, stats, ret>>

\* INSERT INTO elements_meta
StoreMeta(w) ==
    /\ call.pc[w] = "elements_meta"
    /\ elements_meta' = Append(elements_meta,
          [id |-> Len(elements_meta) + 1, guid |-> NewGuid(w),
           discipline |-> call.elem[w].discipline,
           ifc_class |-> call.elem[w].ifc_class, storey |-> call.elem[w].floor])
    /\ call' = [call EXCEPT !.pc[w] = "element_instances"]
    /\ UNCHANGED <<element_transforms, base_geometries, element_instances,
                   elements_rtree, template_hashes, stats, ret>>

\* INSERT INTO element_instances
StoreInstance(w) ==
    /\ call.pc[w] = "element_instances"
    /\ element_instances' = Append(element_instances,
          [guid |-> NewGuid(w), geometry_hash |-> WorkerGeometry(w).geometry_hash])
    /\ call' = [call EXCEPT !.pc[w] = "element_transforms"]
    /\ UNCHANGED <<elements_meta, element_transforms, base_geometries,
                   elements_rtree, template_hashes, stats, ret>>

\* INSERT INTO element_transforms
StoreTransform(w) ==
    /\ call.pc[w] = "element_transforms"
    /\ element_transforms' = Append(element_transforms,
          [guid |-> NewGuid(w), center_x |-> call.elem[w].center_x,
           center_y |-> call.elem[w].center_y, center_z |-> call.elem[w].center_z,
           rotation_z |-> call.elem[w].rotation_z, length |-> call.elem[w].length])
    /\ call' = [call EXCEPT !.pc[w] = "elements_rtree"]
    /\ UNCHANGED <<elements_meta, base_geometries, element_instances,
                   elements_rtree, template_hashes, stats, ret>>

\* SELECT id FROM elements_meta WHERE guid = ?; INSERT INTO elements_rtree
StoreRtree(w) ==
    LET row_id == (CHOOSE m \in Range(elements_meta) : m.guid = NewGuid(w)).id
    IN  /\ call.pc[w] = "elements_rtree"
        /\ elements_rtree' = Append(elements_rtree,
              RtreeRow(row_id, main_rtree_box(WorkerDimensions(w).width,
                  WorkerDimensions(w).depth, WorkerDimensions(w).height,
                  call.elem[w].center_x, call.elem[w].center_y,
                  call.elem[w].center_z)))
        /\ stats' = [pass |-> "insert", inserted |-> stats.inserted + 1]
        /\ call' = [call EXCEPT !.pc[w] = "done"]
        /\ UNCHANGED <<elements_meta, element_transforms, base_geometries,
                       element_instances, template_hashes, ret>>

NextWorkers ==
    \E w \in 1..NumWorkers :
        \/ StoreGeometry(w)
        \/ StoreMeta(w)
        \/ StoreInstance(w)
        \/ StoreTransform(w)
        \/ StoreRtree(w)

SpecWorkers == InitWorkers /\ [][NextWorkers]_vars

AllStored == call.fn = "main" /\ \A w \in 1..NumWorkers : call.pc[w] = "done"

RowsWithHash(hash) == {i \in DOMAIN base_geometries :
                          base_geometries[i].geometry_hash = hash}

References(guid, hash) ==
    \E i \in DOMAIN element_instances :
        element_instances[i] = [guid |-> guid, geometry_hash |-> hash]

EachWallOnce(walls) ==
    /\ {w.guid : w \in Range(walls)} = WallGuids
    /\ Len(walls) = Cardinality(WallGuids)

(***************************************************************************)
(* C22: after every run of detect_corridors the detector's walls hold each *)
(* wall of the database exactly once, and a second run on the same         *)
(* detector over the unchanged database returns the corridors of the       *)
(* first.                                                                  *)
(***************************************************************************)
C22_RunsDependOnSnapshotOnly ==
    [][call'.fn = "detect_corridors" =>
          /\ EachWallOnce(ret'.walls)
          /\ call.fn = "detect_corridors" => ret'.corridors = ret.corridors]_vars

CorridorsCreated == ret.fn = "create_corridor_centerlines"

\* width and length of the corridor are whole numbers of the unit
ExactMeasures(c) ==
    /\ c.width * c.width
          = MidpointDistance2(call.args.wall1, call.args.wall2)
    /\ c.length = Abs(call.args.wall1.end_x + call.args.wall2.end_x
                        - call.args.wall1.start_x - call.args.wall2.start_x) \div 2
    /\ call.args.wall1.end_y + call.args.wall2.end_y
          = call.args.wall1.start_y + call.args.wall2.start_y

(***************************************************************************)
(* C23: a corridor is 'main' when its length is over 20 m and its width    *)
(* over 3 m, otherwise 'secondary' when its length is over 10 m, otherwise *)
(* 'cross'; the bounds are strict.                                         *)
(***************************************************************************)
C23_TypeFromLengthAndWidth ==
    CorridorsCreated =>
        \A k \in DOMAIN ret.corridors :
            LET c == ret.corridors[k]
            IN  ExactMeasures(c) =>
                    c.corridor_type =
                        IF c.length > 20 * Metre /\ c.width > 3 * Metre THEN "main"
                        ELSE IF c.length > 10 * Metre THEN "secondary"
                        ELSE "cross"

C23_Witness ==
    /\ CorridorsCreated
    /\ Len(ret.corridors) = 1
    /\ ExactMeasures(ret.corridors[1])
    /\ ret.corridors[1].length = 20 * Metre
    /\ ret.corridors[1].width = 4 * Metre
    /\ ret.corridors[1].corridor_type = "secondary"

(***************************************************************************)
(* C26: the direction is 'horizontal' when the representative angle is     *)
(* within 45 degrees of the horizontal axis (below 45, within 45 of 180,   *)
(* or above 315), 'vertical' when it is within 45 degrees of 90 or 270,    *)
(* and 'diagonal' in the remaining cases only.                             *)
(***************************************************************************)
C26_DirectionFromAngle ==
    CorridorsCreated =>
        \A k \in DOMAIN ret.corridors :
            LET a == ret.corridors[k].angle
            IN  ret.corridors[k].direction =
                    IF a < 45 \/ Abs(a - 180) < 45 \/ a > 315 THEN "horizontal"
                    ELSE IF Abs(a - 90) < 45 \/ Abs(a - 270) < 45 THEN "vertical"
                    ELSE "diagonal"

(***************************************************************************)
(* C28: for two walls of equal length L over the same extent, drawn in the *)
(* same direction or in opposite directions, the corridor has length L and *)
(* its centerline runs from one end of the extent to the other.            *)
(***************************************************************************)
C28_FacingWallsGiveFullLength ==
    CorridorsCreated =>
        LET wall1 == call.args.wall1
            wall2 == call.args.wall2
            c == ret.corridors[1]
            xs == {c.centerline_points[i][1] : i \in DOMAIN c.centerline_points}
            Drawn(w) == \/ w.angle = 0 /\ w.end_x > w.start_x
                        \/ w.angle = 180 /\ w.end_x < w.start_x
        IN  (/\ wall1.length = wall2.length
             /\ Drawn(wall1) /\ Drawn(wall2)
             /\ {wall1.start_x, wall1.end_x} = {wall2.start_x, wall2.end_x}) =>
                /\ c.length = wall1.length
                /\ Min(xs) = Min({wall1.start_x, wall1.end_x})
                /\ Max(xs) = Max({wall1.start_x, wall1.end_x})

\* the wall runs from start to end along the direction of its angle, a
\* whole number of quarter turns
AlongItsAngle(w) ==
    CASE w.angle = 0 -> w.end_y = w.start_y /\ w.end_x - w.start_x = w.length
      [] w.angle = 90 -> w.end_x = w.start_x /\ w.end_y - w.start_y = w.length
      [] w.angle = 180 -> w.end_y = w.start_y /\ w.start_x - w.end_x = w.length
      [] w.angle = 270 -> w.end_x = w.start_x /\ w.start_y - w.end_y = w.length
      [] OTHER -> TRUE

(***************************************************************************)
(* C25: every wall loaded by load_walls runs from its start to its end in  *)
(* the direction of wall.angle, the stored rotation in degrees: a wall of  *)
(* rotation pi/2 has endpoints that differ only in y.                      *)
(***************************************************************************)
C25_EndpointsFollowRotation ==
    ret.fn = "detect_corridors" =>
        \A i \in DOMAIN ret.walls : AlongItsAngle(ret.walls[i])

SameGroup(wall1, wall2) ==
    \E k \in DOMAIN ret.groups :
        {wall1, wall2} \subseteq Range(ret.groups[k].walls)

\* orientations on either side of the 0/180 seam, no more than half the
\* tolerance of 5 degrees apart
AcrossSeam(wall1, wall2) ==
    LET o1 == wall1.angle % 180
        o2 == wall2.angle % 180
    IN  o1 > 90 /\ o2 < 90 /\ 2 * ((180 - o1) + o2) <= 5

(***************************************************************************)
(* C27: every group key of find_parallel_walls lies in [0, 180); two walls *)
(* whose angles differ by exactly 180 degrees are in the same group; and   *)
(* two walls whose orientations are within half the tolerance of each      *)
(* other across the 0/180 seam, such as 179 and 1 degrees, are in the same *)
(* group.                                                                  *)
(***************************************************************************)
C27_GroupsByUndirectedOrientation ==
    ret.fn = "find_parallel_walls" =>
        LET walls == call.args.walls
        IN  /\ \A k \in DOMAIN ret.groups :
                  0 <= ret.groups[k].key /\ ret.groups[k].key < 180
            /\ \A i, j \in DOMAIN walls :
                  Abs(walls[i].angle - walls[j].angle) = 180
                      => SameGroup(walls[i], walls[j])
            /\ \A i, j \in DOMAIN walls :
                  AcrossSeam(walls[i], walls[j]) => SameGroup(walls[i], walls[j])

Dist2(p, q) == (q[1] - p[1]) * (q[1] - p[1]) + (q[2] - p[2]) * (q[2] - p[2])

\* p lies on the segment from a to b, ends included
OnSegment(p, a, b) ==
    LET along == (p[1] - a[1]) * (b[1] - a[1]) + (p[2] - a[2]) * (b[2] - a[2])
    IN  /\ (p[1] - a[1]) * (b[2] - a[2]) = (p[2] - a[2]) * (b[1] - a[1])
        /\ 0 <= along /\ along <= Dist2(a, b)

\* the places of the routing list where two consecutive points both lie on
\* the i-th segment of the centerline
StepsOn(i) ==
    LET line == call.args.centerline_points
    IN  {k \in 1..(Len(ret.points) - 1) :
            /\ OnSegment(ret.points[k], line[i - 1], line[i])
            /\ OnSegment(ret.points[k + 1], line[i - 1], line[i])}

RoutingReturned == ret.fn = "get_trunk_routing_points"

C30_SpacingWithinTarget ==
    RoutingReturned =>
        LET line == call.args.centerline_points
            s == call.args.segment_length
        IN  \A i \in 2..Len(line) :
                Dist2(line[i - 1], line[i]) >= s * s =>
                    \A k \in StepsOn(i) :
                        Dist2(ret.points[k], ret.points[k + 1]) <= s * s

WallPlaced ==
    /\ ret.fn = "populate_geometry_tables"
    /\ call.args.elem.ifc_class = "IfcWall"

\* the wall of the element as OrientedBoxGenerator.generate builds it
WallAsOrientedBox(e) ==
    LET parsed == ParseDimensions(e.dimensions)
        dims == IF parsed.kind = "object" THEN parsed.obj ELSE EmptyDict
    IN  OrientedBoxGenerator_generate(
            Get(dims, "length", Metre),
            Get(dims, "width", DEFAULT_WALL_THICKNESS),
            Get(dims, "height", DEFAULT_WALL_HEIGHT),
            e.center_x, e.center_y, e.center_z, e.rotation_z)

====
